---- MODULE Spec2Model ----
(***************************************************************************)
(* State-machine model of the AgenticReader exploration engine:            *)
(*   - agenticReaderWithEvents        (src/reader/agenticReader.ts)         *)
(*   - createAgenticReaderTools       (src/reader/htmlToMarkdownTree.ts)    *)
(*   - htmlToMarkdownChunks           (src/reader/htmlToMarkdownTree.ts)    *)
(*   - generateChunkSummaries         (src/reader/htmlToMarkdownTree.ts)    *)
(*   - htmlToMarkdownChunksWithSummaries, waitForParsingResult (same file) *)
(*   - processHtmlJsonFile, processAllHtmlJsonFiles (src/reader/types.ts)  *)
(*   - convertDataset                 (src/reader/convertDataset.ts)        *)
(*   - benchmarkFile                  (src/unnamed/part_000)                *)
(* Strings are sequences of one-character strings; positions are 0-based   *)
(* as in the source, sequence indices are 1-based.                         *)
(***************************************************************************)
EXTENDS Integers, Sequences, FiniteSets, TLC

VARIABLES
    fullContent,   \* the document text of the session / tool context
    options,       \* AgenticReaderOptions passed by the caller
    pc,            \* position of agenticReaderWithEvents (or of the tool harness)
    events,        \* sequence of emitEvent(event, data) calls, in call order
    stats,         \* the session's counters
    steps,         \* result.steps.length of the running generateText call
    genCalls,      \* number of top-level generateText invocations
    selfStopped,   \* the last finished step requested no tool
    resultText,    \* result.text once generateText has returned
    failure,       \* the value caught by the catch block
    messages,      \* accumulated message history of the reasoning call
    presented,     \* last prepareStep call: the history given, the list the step ran on
    lastTool,      \* the last tool invocation: name, input, result
    pending,       \* tool invocations of the running step that await their vision call
    html,          \* chunker input
    chunkSize,     \* chunker parameter
    overlap,       \* chunker parameter
    i,             \* chunker loop variable
    chunks,        \* chunker result under construction
    cpc,           \* position of htmlToMarkdownChunks
    inputChunks,   \* generateChunkSummaries: the chunks parameter
    maxConcurrency,\* generateChunkSummaries: the maxConcurrency parameter
    queue,         \* generateChunkSummaries: items not yet taken
    results,       \* generateChunkSummaries: the result array
    completed,     \* generateChunkSummaries: the completed counter
    workers,       \* generateChunkSummaries: the worker promises, in creation order
    calls,         \* per chunk: generation calls issued and the text returned
    spc,           \* position of generateChunkSummaries
    sessions,      \* two sessions of one process: position, counters, events of each
    file,          \* processHtmlJsonFile: position, files written, value returned
    allFiles,      \* processAllHtmlJsonFiles: position, number of files, results
    conversion,    \* convertDataset: the PDF files, the counters, the JSON files present
    benchmark,     \* benchmarkFile: the extracted rows, the ground truth, the result
    parsing        \* waitForParsingResult: time waited, status requests, outcome

vars == <<fullContent, options, pc, events, stats, steps, genCalls, selfStopped,
          resultText, failure, messages, presented, lastTool, pending,
          html, chunkSize, overlap, i, chunks, cpc,
          inputChunks, maxConcurrency, queue, results, completed, workers,
          calls, spc, sessions, file, allFiles, conversion, benchmark, parsing>>

sessionVars == <<fullContent, options, pc, events, stats, steps, genCalls,
                 selfStopped, resultText, failure, lastTool, pending>>
historyVars == <<messages, presented>>
chunkVars == <<html, chunkSize, overlap, i, chunks, cpc>>
summaryVars == <<inputChunks, maxConcurrency, queue, results, completed,
                 workers, calls, spc>>
pairVars == <<sessions>>
scriptVars == <<conversion, benchmark, parsing>>
callerVars == <<file, allFiles, scriptVars>>

-----------------------------------------------------------------------------
(* Bounds of the model *)

MaxIterations == 2
MaxDocLen == 4
MaxSearchLen == 2
MaxResultsInput == 2
MaxMessages == 26
MaxHtmlLen == 6
MaxChunkSize == 3

(* Program constants *)

DefaultMaxResults == 5
ContextRadius == 50
HistoryThreshold == 20
RecentKept == 20

-----------------------------------------------------------------------------
(* JavaScript built-ins used by the source *)

Min(a, b) == IF a < b THEN a ELSE b

Max(a, b) == IF a > b THEN a ELSE b

\* ToIntegerOrInfinity + clamping of a slice argument
RelativeIndex(k, len) == IF k < 0 THEN Max(len + k, 0) ELSE Min(k, len)

\* variant of slice that drops the last element of the range
SliceShort(s, start, end) ==
    LET from == RelativeIndex(start, Len(s))
        to   == RelativeIndex(end, Len(s))
    IN  IF from < to THEN SubSeq(s, from + 1, to - 1) ELSE <<>>

\* String.prototype.slice / Array.prototype.slice (start, end)
Slice(s, start, end) ==
    LET from == RelativeIndex(start, Len(s))
        to   == RelativeIndex(end, Len(s))
    IN  IF from < to THEN SubSeq(s, from + 1, to) ELSE <<>>

\* slice(start) with end omitted
SliceFrom(s, start) == Slice(s, start, Len(s))

LowerChar(c) == CASE c = "A" -> "a" [] c = "B" -> "b" [] OTHER -> c

\* String.prototype.toLowerCase
ToLowerCase(s) == [k \in 1..Len(s) |-> LowerChar(s[k])]

\* needle occurs in hay at 0-based position p
StartsAt(hay, needle, p) ==
    /\ p >= 0
    /\ p + Len(needle) <= Len(hay)
    /\ \A k \in 1..Len(needle) : hay[p + k] = needle[k]

\* String.prototype.indexOf(searchString, position)
IndexOf(hay, needle, position) ==
    LET from  == Min(Max(position, 0), Len(hay))
        found == {p \in from..Len(hay) : StartsAt(hay, needle, p)}
    IN  IF found = {} THEN -1
        ELSE CHOOSE p \in found : \A q \in found : p <= q

-----------------------------------------------------------------------------
(* createAgenticReaderTools: the four tools bound to fullContent, stats and  *)
(* emitEvent.  Each execute operator takes the counters and the event        *)
(* sequence and yields the new counters, the new event sequence and the      *)
(* value the tool returns.                                                   *)

\* emitEvent(event, data): the sink is called with the event
\* variant of Emit that puts the event in front of the sink's record
EmitInFront(ev, e) == <<e>> \o ev

Emit(ev, e) == Append(ev, e)

\* variant of the validation that does not check endPosition against the length
ReadContentResultNoEndCheck(doc, startPosition, endPosition) ==
    IF startPosition < 0 \/ startPosition > Len(doc)
    THEN [success |-> FALSE,
          error |-> [reason |-> "Invalid startPosition",
                     position |-> startPosition,
                     documentLength |-> Len(doc)]]
    ELSE IF startPosition >= endPosition
    THEN [success |-> FALSE,
          error |-> [reason |-> "startPosition must be less than endPosition",
                     startPosition |-> startPosition,
                     endPosition |-> endPosition]]
    ELSE LET content == SubSeq(doc, startPosition + 1, Min(endPosition, Len(doc)))
         IN  [success |-> TRUE,
              content |-> content,
              metadata |-> [startPosition |-> startPosition,
                            endPosition |-> endPosition,
                            contentLength |-> Len(content),
                            totalDocumentLength |-> Len(doc),
                            hasMoreBefore |-> startPosition > 0,
                            hasMoreAfter |-> endPosition < Len(doc)]]

\* readContent.execute, validation and extraction (lines 236-280)
ReadContentResult(doc, startPosition, endPosition) ==
    IF startPosition < 0 \/ startPosition > Len(doc)
    THEN [success |-> FALSE,
          error |-> [reason |-> "Invalid startPosition",
                     position |-> startPosition,
                     documentLength |-> Len(doc)]]
    ELSE IF endPosition < 0 \/ endPosition > Len(doc)
    THEN [success |-> FALSE,
          error |-> [reason |-> "Invalid endPosition",
                     position |-> endPosition,
                     documentLength |-> Len(doc)]]
    ELSE IF startPosition >= endPosition
    THEN [success |-> FALSE,
          error |-> [reason |-> "startPosition must be less than endPosition",
                     startPosition |-> startPosition,
                     endPosition |-> endPosition]]
    ELSE LET content == Slice(doc, startPosition, endPosition)
         IN  [success |-> TRUE,
              content |-> content,
              metadata |-> [startPosition |-> startPosition,
                            endPosition |-> endPosition,
                            contentLength |-> Len(content),
                            totalDocumentLength |-> Len(doc),
                            hasMoreBefore |-> startPosition > 0,
                            hasMoreAfter |-> endPosition < Len(doc)]]

\* variant of readContent.execute that counts a read only once it has succeeded
ReadContentExecuteCountsSuccesses(doc, st, ev, startPosition, endPosition) ==
    LET res == ReadContentResult(doc, startPosition, endPosition)
        st1 == IF res.success
               THEN [st EXCEPT !.tool_calls = @ + 1, !.content_reads = @ + 1]
               ELSE st
        ev1 == Emit(ev, [event |-> "tool_call", tool |-> "readContent",
                         startPosition |-> startPosition,
                         endPosition |-> endPosition])
        ev2 == IF res.success
               THEN Emit(ev1, [event |-> "content_read",
                               startPosition |-> startPosition,
                               endPosition |-> endPosition,
                               contentLength |-> Len(res.content)])
               ELSE ev1
    IN  [stats |-> st1, events |-> ev2, result |-> res]

\* readContent.execute (lines 222-281)
ReadContentExecute(doc, st, ev, startPosition, endPosition) ==
    LET st1 == [st EXCEPT !.tool_calls = @ + 1, !.content_reads = @ + 1]
        ev1 == Emit(ev, [event |-> "tool_call", tool |-> "readContent",
                         startPosition |-> startPosition,
                         endPosition |-> endPosition])
        res == ReadContentResult(doc, startPosition, endPosition)
        ev2 == IF res.success
               THEN Emit(ev1, [event |-> "content_read",
                               startPosition |-> startPosition,
                               endPosition |-> endPosition,
                               contentLength |-> Len(res.content)])
               ELSE ev1
    IN  [stats |-> st1, events |-> ev2, result |-> res]

Ellipsis == <<".", ".", ".">>

\* variant of MatchContext that marks only the sides on which text was left out
MatchContextMarkedWhenCut(doc, searchText, foundPos) ==
    LET contextStart == Max(0, foundPos - ContextRadius)
        contextEnd   == Min(Len(doc), foundPos + Len(searchText) + ContextRadius)
    IN  (IF contextStart > 0 THEN Ellipsis ELSE <<>>)
        \o Slice(doc, contextStart, contextEnd)
        \o (IF contextEnd < Len(doc) THEN Ellipsis ELSE <<>>)

\* the context window of one match (lines 449-457)
MatchContext(doc, searchText, foundPos) ==
    LET contextStart == Max(0, foundPos - ContextRadius)
        contextEnd   == Min(Len(doc), foundPos + Len(searchText) + ContextRadius)
    IN  Ellipsis \o Slice(doc, contextStart, contextEnd) \o Ellipsis

\* where the scan resumes after a match (line 459)
NextSearchPos(foundPos, searchText) == foundPos + Len(searchText)

\* the while loop of searchContent.execute (lines 443-460)
RECURSIVE SearchLoop(_, _, _, _, _, _)
SearchLoop(doc, searchText, maxResults, matches, currentPos, iterations) ==
    IF ~(Len(matches) < maxResults /\ currentPos < Len(doc))
    THEN [results |-> matches, currentPos |-> currentPos, iterations |-> iterations]
    ELSE LET foundPos == IndexOf(ToLowerCase(doc), ToLowerCase(searchText), currentPos)
         IN  IF foundPos = -1
             THEN [results |-> matches, currentPos |-> currentPos,
                   iterations |-> iterations + 1]
             ELSE SearchLoop(doc, searchText, maxResults,
                             Append(matches,
                                    [position |-> foundPos,
                                     context |-> MatchContext(doc, searchText, foundPos)]),
                             NextSearchPos(foundPos, searchText),
                             iterations + 1)

\* variant of MaxResultsOf that takes the default for a limit that is not positive
MaxResultsOrDefault(input) ==
    IF "maxResults" \in DOMAIN input /\ input.maxResults > 0
    THEN input.maxResults
    ELSE DefaultMaxResults

\* maxResults = 5 default parameter (line 427)
MaxResultsOf(input) ==
    IF "maxResults" \in DOMAIN input THEN input.maxResults ELSE DefaultMaxResults

\* searchContent.execute, the scan and the returned value (lines 440-475)
SearchContentResult(doc, input) ==
    LET loop == SearchLoop(doc, input.searchText, MaxResultsOf(input), <<>>, 0, 0)
    IN  [success |-> TRUE,
         searchText |-> input.searchText,
         resultsFound |-> Len(loop.results),
         results |-> loop.results,
         hasMore |-> /\ loop.currentPos < Len(doc)
                     /\ IndexOf(ToLowerCase(doc), ToLowerCase(input.searchText),
                                loop.currentPos) # -1,
         iterations |-> loop.iterations]

\* searchContent.execute (lines 427-476)
SearchContentExecute(doc, st, ev, input) ==
    LET st1 == [st EXCEPT !.tool_calls = @ + 1]
        ev1 == Emit(ev, [event |-> "tool_call", tool |-> "searchContent",
                         searchText |-> input.searchText,
                         maxResults |-> MaxResultsOf(input)])
        res == SearchContentResult(doc, input)
        ev2 == Emit(ev1, [event |-> "search_complete",
                          searchText |-> input.searchText,
                          resultsFound |-> res.resultsFound])
    IN  [stats |-> st1, events |-> ev2, result |-> res]

\* variant of readFigure.execute that reports the analysis event on failure too
ReadFigureExecuteAlwaysReports(st, ev, imageUrl, query, vision) ==
    LET st1 == [st EXCEPT !.tool_calls = @ + 1, !.figure_analyses = @ + 1]
        ev1 == Emit(ev, [event |-> "tool_call", tool |-> "readFigure",
                         imageUrl |-> imageUrl, query |-> query])
        ev2 == Emit(ev1, [event |-> "figure_analyzed",
                          imageUrl |-> imageUrl, query |-> query,
                          result |-> IF vision.ok THEN vision.text ELSE ""])
    IN  IF vision.ok
        THEN [stats |-> st1, events |-> ev2,
              result |-> [success |-> TRUE, imageUrl |-> imageUrl,
                          query |-> query, analysis |-> vision.text]]
        ELSE [stats |-> st1, events |-> ev2,
              result |-> [success |-> FALSE,
                          error |-> [reason |-> "Failed to analyze figure",
                                     message |-> vision.message]]]

\* readFigure.execute (lines 290-350); vision is the outcome of the vision call
ReadFigureExecute(st, ev, imageUrl, query, vision) ==
    LET st1 == [st EXCEPT !.tool_calls = @ + 1, !.figure_analyses = @ + 1]
        ev1 == Emit(ev, [event |-> "tool_call", tool |-> "readFigure",
                         imageUrl |-> imageUrl, query |-> query])
    IN  IF vision.ok
        THEN [stats |-> st1,
              events |-> Emit(ev1, [event |-> "figure_analyzed",
                                    imageUrl |-> imageUrl, query |-> query,
                                    result |-> vision.text]),
              result |-> [success |-> TRUE, imageUrl |-> imageUrl,
                          query |-> query, analysis |-> vision.text]]
        ELSE [stats |-> st1,
              events |-> ev1,
              result |-> [success |-> FALSE,
                          error |-> [reason |-> "Failed to analyze figure",
                                     message |-> vision.message]]]

\* readTable.execute (lines 358-418)
ReadTableExecute(st, ev, imageUrl, vision) ==
    LET st1 == [st EXCEPT !.tool_calls = @ + 1]
        ev1 == Emit(ev, [event |-> "tool_call", tool |-> "readTable",
                         imageUrl |-> imageUrl])
    IN  IF vision.ok
        THEN [stats |-> st1,
              events |-> Emit(ev1, [event |-> "table_extracted",
                                    imageUrl |-> imageUrl]),
              result |-> [success |-> TRUE, imageUrl |-> imageUrl,
                          tableHtml |-> vision.text]]
        ELSE [stats |-> st1,
              events |-> ev1,
              result |-> [success |-> FALSE,
                          error |-> [reason |-> "Failed to extract table",
                                     message |-> vision.message]]]

-----------------------------------------------------------------------------
(* agenticReaderWithEvents *)

\* const stats = {...} (lines 39-44)
InitialStats ==
    [tool_calls |-> 0, content_reads |-> 0, figure_analyses |-> 0,
     search_iterations |-> 0]

NoFailure == [thrown |-> FALSE]

NoText == "<unset>"

NoTool == [tool |-> "none"]

\* options the caller may pass: every field of AgenticReaderOptions is optional
OptionValues ==
    LET base     == {[model |-> "gpt-5"]}
        withMax  == {[model |-> "gpt-5", max_iterations |-> n] : n \in 1..MaxIterations}
        withMeta == {[model |-> "gpt-5", include_metadata |-> b] : b \in BOOLEAN}
        withBoth == {[model |-> "gpt-5", max_iterations |-> n, include_metadata |-> b] :
                        n \in 1..MaxIterations, b \in BOOLEAN}
    IN  base \cup withMax \cup withMeta \cup withBoth

\* variant of IncludeMetadata whose default is true
IncludeMetadataDefaultTrue(opts) ==
    IF "include_metadata" \in DOMAIN opts THEN opts.include_metadata ELSE TRUE

\* include_metadata = false default (line 49)
IncludeMetadata(opts) ==
    IF "include_metadata" \in DOMAIN opts THEN opts.include_metadata ELSE FALSE

\* variant of StepCountIs that stops one step late
StepCountIsLate(opts, n) ==
    "max_iterations" \in DOMAIN opts /\ n = opts.max_iterations + 1

\* stopWhen: stepCountIs(max_iterations) (line 114): the step count equals the budget
StepCountIs(opts, n) ==
    "max_iterations" \in DOMAIN opts /\ n = opts.max_iterations

EmptyObject == <<>>

\* variant of prepareStep that keeps the last 10 messages
PrepareStepKeepTen(msgs) ==
    IF Len(msgs) > HistoryThreshold
    THEN [messages |-> <<msgs[1]>> \o SliceFrom(msgs, 0 - 10)]
    ELSE EmptyObject

\* prepareStep (lines 115-126)
PrepareStep(msgs) ==
    IF Len(msgs) > HistoryThreshold
    THEN [messages |-> <<msgs[1]>> \o SliceFrom(msgs, 0 - RecentKept)]
    ELSE EmptyObject

\* the message list a step runs on: prepareStep's override when it gives one
StepInput(msgs) ==
    LET prepared == PrepareStep(msgs)
    IN  IF "messages" \in DOMAIN prepared THEN prepared.messages ELSE msgs

\* one prepareStep call, recorded with the history it was given
Prepared(msgs) == [given |-> msgs, messages |-> StepInput(msgs)]

NotPrepared == [given |-> <<>>, messages |-> <<>>]

\* variant of ErrorMessage that always reports the fixed text
ErrorMessageGeneric(err) == "An error occurred during reading"

\* error.message || 'An error occurred during reading' (line 154)
ErrorMessage(err) ==
    IF err.message # "" THEN err.message ELSE "An error occurred during reading"

(* inputs of the model's environment *)
SessionDocs == {<<"a", "B">>}
ResultTexts == {"", "final answer"}
FailureMessages == {"", "transport failure"}
SessionReads == {<<0, 1>>, <<0, 2>>, <<1, 2>>, <<0 - 1, 1>>, <<3, 3>>, <<0, 3>>,
                 <<0, 0 - 1>>, <<1, 1>>, <<2, 1>>}
SessionSearches == {[searchText |-> <<"b">>, maxResults |-> 1]}
VisionOutcomes == {[ok |-> TRUE, text |-> "vision text"],
                   [ok |-> FALSE, message |-> "vision failure"]}

\* cap on the steps of a session that has no step budget
MaxSteps == MaxIterations

\* the variables of a component that does not run in a specification
IdleHistory == messages = <<>> /\ presented = NotPrepared

IdleChunker ==
    /\ html = <<>>
    /\ chunkSize = 1
    /\ overlap = 0
    /\ i = 0
    /\ chunks = <<>>
    /\ cpc = "idle"

IdlePair == sessions = <<>>

IdleBatch == allFiles = [pc |-> "idle"]

IdleConversion == conversion = [pc |-> "idle"]

IdleBenchmark == benchmark = [pc |-> "idle"]

IdleParsing == parsing = [pc |-> "idle"]

IdleScripts == IdleConversion /\ IdleBenchmark /\ IdleParsing

IdleCaller == file = [pc |-> "idle"] /\ IdleBatch

IdleSummarizer ==
    /\ inputChunks = <<>>
    /\ maxConcurrency = 1
    /\ queue = <<>>
    /\ results = <<>>
    /\ completed = 0
    /\ workers = <<>>
    /\ calls = <<>>
    /\ spc = "idle"

SessionInit ==
    /\ fullContent \in SessionDocs
    /\ options \in OptionValues
    /\ pc = "starting"
    /\ events = <<>>
    /\ stats = InitialStats
    /\ steps = 0
    /\ genCalls = 0
    /\ selfStopped = FALSE
    /\ resultText = NoText
    /\ failure = NoFailure
    /\ lastTool = NoTool
    /\ pending = <<>>
    /\ IdleHistory
    /\ IdleChunker
    /\ IdleSummarizer
    /\ IdlePair
    /\ IdleCaller
    /\ IdleScripts

\* variant of AnswerPayload that replaces an empty text by a notice
AnswerPayloadOrNotice(text) == IF text = "" THEN "No answer was generated" ELSE text

\* answer: result.text (line 138)
AnswerPayload(text) == text

\* the event the controller is about to hand to the sink at each position
PendingEvent ==
    CASE pc = "starting" -> [event |-> "status", stage |-> "starting"]
      [] pc = "document_loaded" ->
            [event |-> "status", stage |-> "document_loaded",
             documentLength |-> Len(fullContent)]
      [] pc = "exploring" -> [event |-> "status", stage |-> "exploring"]
      [] pc = "exploration_complete" ->
            [event |-> "status", stage |-> "exploration_complete",
             stats |-> [stats EXCEPT !.search_iterations = steps]]
      [] pc = "answer" -> [event |-> "answer", answer |-> AnswerPayload(resultText)]
      [] pc = "metadata" -> [event |-> "metadata", stats |-> stats]
      [] pc = "complete" -> [event |-> "complete"]
      [] pc = "catch" -> [event |-> "error", message |-> ErrorMessage(failure)]

\* lines 53-56
EmitStarting ==
    /\ pc = "starting"
    /\ events' = Emit(events, PendingEvent)
    /\ pc' = "document_loaded"
    /\ UNCHANGED <<fullContent, options, stats, steps, genCalls, selfStopped,
                   resultText, failure, lastTool>>
    /\ UNCHANGED <<historyVars, chunkVars, summaryVars, pending, pairVars, callerVars>>

\* lines 58-101: the status event, then the tools and the system prompt are built
EmitDocumentLoaded ==
    /\ pc = "document_loaded"
    /\ events' = Emit(events, PendingEvent)
    /\ pc' = "exploring"
    /\ UNCHANGED <<fullContent, options, stats, steps, genCalls, selfStopped,
                   resultText, failure, lastTool>>
    /\ UNCHANGED <<historyVars, chunkVars, summaryVars, pending, pairVars, callerVars>>

\* lines 103-114: the status event, then generateText is called with the prompt
EmitExploring ==
    /\ pc = "exploring"
    /\ events' = Emit(events, PendingEvent)
    /\ genCalls' = genCalls + 1
    /\ messages' = <<0>>
    /\ pc' = "generate"
    /\ UNCHANGED <<fullContent, options, stats, steps, selfStopped,
                   resultText, failure, lastTool, presented>>
    /\ UNCHANGED <<chunkVars, summaryVars, pending, pairVars, callerVars>>

\* variant of DocumentAfter in which a tool uses up the text it was given
DocumentConsumed(doc) == <<>>

\* the document after a tool has run: the tools only read fullContent, through
\* length, slice, toLowerCase and indexOf (lines 237-259, 443-451)
DocumentAfter(doc) == doc

\* one step of generateText that ran a tool: the step is recorded and the stop
\* condition of line 114 decides whether the call returns
FinishToolStep(r, tool, input) ==
    /\ stats' = r.stats
    /\ events' = r.events
    /\ lastTool' = [tool |-> tool, input |-> input, result |-> r.result]
    /\ presented' = Prepared(messages)
    /\ messages' = messages \o <<Len(messages), Len(messages) + 1>>
    /\ steps' = steps + 1
    /\ selfStopped' = FALSE
    /\ IF StepCountIs(options, steps + 1)
       THEN /\ resultText' \in ResultTexts
            /\ pc' = "exploration_complete"
       ELSE /\ resultText' = resultText
            /\ pc' = "generate"
    /\ fullContent' = DocumentAfter(fullContent)
    /\ UNCHANGED <<options, genCalls, failure>>
    /\ UNCHANGED <<chunkVars, summaryVars, pending, pairVars, callerVars>>

StepReadContent(startPosition, endPosition) ==
    /\ pc = "generate"
    /\ steps < MaxSteps
    /\ FinishToolStep(ReadContentExecute(fullContent, stats, events,
                                         startPosition, endPosition),
                      "readContent", <<startPosition, endPosition>>)

StepSearchContent(input) ==
    /\ pc = "generate"
    /\ steps < MaxSteps
    /\ FinishToolStep(SearchContentExecute(fullContent, stats, events, input),
                      "searchContent", input)

StepReadFigure(vision) ==
    /\ pc = "generate"
    /\ steps < MaxSteps
    /\ FinishToolStep(ReadFigureExecute(stats, events, "img", "query", vision),
                      "readFigure", vision)

StepReadTable(vision) ==
    /\ pc = "generate"
    /\ steps < MaxSteps
    /\ FinishToolStep(ReadTableExecute(stats, events, "img", vision),
                      "readTable", vision)

\* the execute function of a tool that awaits a vision call
VisionExecute(tool, st, ev, vision) ==
    IF tool = "readFigure"
    THEN ReadFigureExecute(st, ev, "img", "query", vision)
    ELSE ReadTableExecute(st, ev, "img", vision)

\* the part of execute that runs when the tool is called, up to the await of
\* the vision call (lines 290-306, 358-372): the counters and the tool_call event
VisionBegin(tool, st, ev) ==
    LET r == VisionExecute(tool, st, ev, [ok |-> FALSE, message |-> ""])
    IN  [stats |-> r.stats, events |-> SubSeq(r.events, 1, Len(ev) + 1)]

\* the part of execute that runs once the vision call has settled
\* (lines 328-349, 398-417): the result event on success, and the return value
VisionSettle(tool, ev, vision) ==
    LET r == VisionExecute(tool, InitialStats, <<>>, vision)
    IN  [events |-> ev \o Tail(r.events), result |-> r.result]

\* tool calls the model may request together in one step; generateText runs
\* the execute functions of one step without awaiting one before the next
ParallelBatches == {<<"readFigure", "readFigure">>}

\* the calls of a batch, each run up to its await, in the order requested
RECURSIVE BeginAll(_, _, _)
BeginAll(batch, st, ev) ==
    IF batch = <<>>
    THEN [stats |-> st, events |-> ev]
    ELSE LET b == VisionBegin(Head(batch), st, ev)
         IN  BeginAll(Tail(batch), b.stats, b.events)

\* a step in which the model requests several tools: every execute is called
StartParallelStep(batch) ==
    /\ pc = "generate"
    /\ steps < MaxSteps
    /\ LET b == BeginAll(batch, stats, events)
       IN  /\ stats' = b.stats
           /\ events' = b.events
    /\ pending' = batch
    /\ presented' = Prepared(messages)
    /\ pc' = "tools"
    /\ UNCHANGED <<fullContent, options, steps, genCalls, selfStopped,
                   resultText, failure, lastTool, messages>>
    /\ UNCHANGED <<chunkVars, summaryVars, pairVars, callerVars>>

\* the sequence without its k-th element
Without(seq, k) == SubSeq(seq, 1, k - 1) \o SubSeq(seq, k + 1, Len(seq))

\* the vision call of one pending invocation settles and its execute returns;
\* when it was the last one the step is recorded as in FinishToolStep
SettleVision(k, vision) ==
    /\ pc = "tools"
    /\ k \in 1..Len(pending)
    /\ LET r == VisionSettle(pending[k], events, vision)
       IN  /\ events' = r.events
           /\ lastTool' = [tool |-> pending[k], input |-> vision, result |-> r.result]
    /\ pending' = Without(pending, k)
    /\ IF Len(pending) = 1
       THEN /\ messages' = messages \o <<Len(messages), Len(messages) + 1>>
            /\ steps' = steps + 1
            /\ selfStopped' = FALSE
            /\ IF StepCountIs(options, steps + 1)
               THEN /\ resultText' \in ResultTexts
                    /\ pc' = "exploration_complete"
               ELSE /\ resultText' = resultText
                    /\ pc' = "generate"
       ELSE UNCHANGED <<messages, steps, selfStopped, resultText, pc>>
    /\ UNCHANGED <<fullContent, options, stats, genCalls, failure, presented>>
    /\ UNCHANGED <<chunkVars, summaryVars, pairVars, callerVars>>

\* a step in which the model requests no tool: generateText returns its text
StepFinal(text) ==
    /\ pc = "generate"
    /\ presented' = Prepared(messages)
    /\ messages' = Append(messages, Len(messages))
    /\ steps' = steps + 1
    /\ selfStopped' = TRUE
    /\ resultText' = text
    /\ pc' = "exploration_complete"
    /\ UNCHANGED <<fullContent, options, events, stats, genCalls, failure, lastTool>>
    /\ UNCHANGED <<chunkVars, summaryVars, pending, pairVars, callerVars>>

\* generateText rejects (transport or model failure): control enters catch
GenerateThrows(message) ==
    /\ pc = "generate"
    /\ failure' = [thrown |-> TRUE, message |-> message]
    /\ pc' = "catch"
    /\ UNCHANGED <<fullContent, options, events, stats, steps, genCalls,
                   selfStopped, resultText, lastTool>>
    /\ UNCHANGED <<historyVars, chunkVars, summaryVars, pending, pairVars, callerVars>>

\* lines 129-135
EmitExplorationComplete ==
    /\ pc = "exploration_complete"
    /\ stats' = [stats EXCEPT !.search_iterations = steps]
    /\ events' = Emit(events, PendingEvent)
    /\ pc' = "answer"
    /\ UNCHANGED <<fullContent, options, steps, genCalls, selfStopped,
                   resultText, failure, lastTool>>
    /\ UNCHANGED <<historyVars, chunkVars, summaryVars, pending, pairVars, callerVars>>

\* variant of AfterAnswer that ignores the include_metadata flag
AfterAnswerAlwaysMetadata(opts) == "metadata"

\* where control goes after the answer event (line 141)
AfterAnswer(opts) == IF IncludeMetadata(opts) THEN "metadata" ELSE "complete"

\* lines 137-141
EmitAnswer ==
    /\ pc = "answer"
    /\ events' = Emit(events, PendingEvent)
    /\ pc' = AfterAnswer(options)
    /\ UNCHANGED <<fullContent, options, stats, steps, genCalls, selfStopped,
                   resultText, failure, lastTool>>
    /\ UNCHANGED <<historyVars, chunkVars, summaryVars, pending, pairVars, callerVars>>

\* lines 142-145
EmitMetadata ==
    /\ pc = "metadata"
    /\ events' = Emit(events, PendingEvent)
    /\ pc' = "complete"
    /\ UNCHANGED <<fullContent, options, stats, steps, genCalls, selfStopped,
                   resultText, failure, lastTool>>
    /\ UNCHANGED <<historyVars, chunkVars, summaryVars, pending, pairVars, callerVars>>

\* lines 148-150, then the async function resolves
EmitComplete ==
    /\ pc = "complete"
    /\ events' = Emit(events, PendingEvent)
    /\ pc' = "resolved"
    /\ UNCHANGED <<fullContent, options, stats, steps, genCalls, selfStopped,
                   resultText, failure, lastTool>>
    /\ UNCHANGED <<historyVars, chunkVars, summaryVars, pending, pairVars, callerVars>>

\* lines 151-156, then the async function resolves
EmitError ==
    /\ pc = "catch"
    /\ events' = Emit(events, PendingEvent)
    /\ pc' = "resolved"
    /\ UNCHANGED <<fullContent, options, stats, steps, genCalls, selfStopped,
                   resultText, failure, lastTool>>
    /\ UNCHANGED <<historyVars, chunkVars, summaryVars, pending, pairVars, callerVars>>

Next ==
    \/ EmitStarting
    \/ EmitDocumentLoaded
    \/ EmitExploring
    \/ \E r \in SessionReads : StepReadContent(r[1], r[2])
    \/ \E input \in SessionSearches : StepSearchContent(input)
    \/ \E vision \in VisionOutcomes : StepReadFigure(vision)
    \/ \E vision \in VisionOutcomes : StepReadTable(vision)
    \/ \E batch \in ParallelBatches : StartParallelStep(batch)
    \/ \E k \in 1..2, vision \in VisionOutcomes : SettleVision(k, vision)
    \/ \E text \in ResultTexts : StepFinal(text)
    \/ \E message \in FailureMessages : GenerateThrows(message)
    \/ EmitExplorationComplete
    \/ EmitAnswer
    \/ EmitMetadata
    \/ EmitComplete
    \/ EmitError

\* a session whose event sink always returns
Spec == SessionInit /\ [][Next]_vars

-----------------------------------------------------------------------------
(* The same session with an event sink that may throw *)

EmitPointsInTry ==
    {"starting", "document_loaded", "exploring", "exploration_complete",
     "answer", "metadata", "complete"}

\* an emitEvent call inside the try block throws: control enters catch
SinkThrows(message) ==
    /\ pc \in EmitPointsInTry
    /\ events' = Emit(events, PendingEvent)
    /\ stats' = IF pc = "exploration_complete"
                THEN [stats EXCEPT !.search_iterations = steps]
                ELSE stats
    /\ failure' = [thrown |-> TRUE, message |-> message]
    /\ pc' = "catch"
    /\ UNCHANGED <<fullContent, options, steps, genCalls, selfStopped,
                   resultText, lastTool>>
    /\ UNCHANGED <<historyVars, chunkVars, summaryVars, pending, pairVars, callerVars>>

\* the emitEvent call of the catch block throws: the async function rejects
SinkThrowsInCatch(message) ==
    /\ pc = "catch"
    /\ events' = Emit(events, PendingEvent)
    /\ failure' = [thrown |-> TRUE, message |-> message]
    /\ pc' = "rejected"
    /\ UNCHANGED <<fullContent, options, stats, steps, genCalls, selfStopped,
                   resultText, lastTool>>
    /\ UNCHANGED <<historyVars, chunkVars, summaryVars, pending, pairVars, callerVars>>

\* the tool_call emitEvent of a tool throws, so execute rejects; the reasoning
\* call either reports the tool error to the model and goes on, or rejects
ToolSinkThrows(r, tool, message, propagates) ==
    /\ pc = "generate"
    /\ steps < MaxSteps
    /\ stats' = r.stats
    /\ events' = SubSeq(r.events, 1, Len(events) + 1)
    /\ lastTool' = [tool |-> tool, threw |-> message]
    /\ IF propagates
       THEN /\ failure' = [thrown |-> TRUE, message |-> message]
            /\ pc' = "catch"
            /\ UNCHANGED <<steps, selfStopped, resultText, historyVars>>
       ELSE /\ presented' = Prepared(messages)
            /\ messages' = messages \o <<Len(messages), Len(messages) + 1>>
            /\ steps' = steps + 1
            /\ selfStopped' = FALSE
            /\ failure' = failure
            /\ IF StepCountIs(options, steps + 1)
               THEN /\ resultText' \in ResultTexts
                    /\ pc' = "exploration_complete"
               ELSE /\ resultText' = resultText
                    /\ pc' = "generate"
    /\ UNCHANGED <<fullContent, options, genCalls>>
    /\ UNCHANGED <<chunkVars, summaryVars, pending, pairVars, callerVars>>

FaultySinkNext ==
    \/ Next
    \/ \E message \in FailureMessages : SinkThrows(message)
    \/ \E message \in FailureMessages : SinkThrowsInCatch(message)
    \/ \E r \in SessionReads, message \in FailureMessages, propagates \in BOOLEAN :
          ToolSinkThrows(ReadContentExecute(fullContent, stats, events, r[1], r[2]),
                         "readContent", message, propagates)
    \/ \E message \in FailureMessages, propagates \in BOOLEAN :
          ToolSinkThrows(ReadTableExecute(stats, events, "img",
                                          [ok |-> FALSE, message |-> message]),
                         "readTable", message, propagates)

FaultySinkSpec == SessionInit /\ [][FaultySinkNext]_vars

\* the same session under weak fairness: every call that is made returns or throws
FairSpec == Spec /\ WF_vars(Next)

-----------------------------------------------------------------------------
(* Properties of agenticReaderWithEvents *)

CountEvents(kind) == Cardinality({k \in 1..Len(events) : events[k].event = kind})

ToolEventKinds ==
    {"tool_call", "content_read", "figure_analyzed", "table_extracted",
     "search_complete"}

\* position of an event in the lifecycle order
Rank(e) ==
    CASE e.event = "status" /\ e.stage = "starting" -> 1
      [] e.event = "status" /\ e.stage = "document_loaded" -> 2
      [] e.event = "status" /\ e.stage = "exploring" -> 3
      [] e.event \in ToolEventKinds -> 4
      [] e.event = "status" /\ e.stage = "exploration_complete" -> 5
      [] e.event = "answer" -> 6
      [] e.event = "metadata" -> 7
      [] e.event = "complete" -> 8
      [] OTHER -> 9

Ranks == {Rank(events[k]) : k \in 1..Len(events)}

Finished == pc \in {"resolved", "rejected"}

HasBudget == "max_iterations" \in DOMAIN options

Returned == resultText # NoText

\* C1: every execution, whatever the reasoning call and the event sink do,
\* emits exactly one terminal event: never an answer and an error both, and
\* one of them once the session has ended.
C1_ExactlyOneTerminalEvent ==
    /\ CountEvents("answer") + CountEvents("error") <= 1
    /\ Finished => CountEvents("answer") + CountEvents("error") = 1

\* C2: once the reasoning call has returned normally the events are, in this
\* order, starting, document_loaded, exploring, the tool events,
\* exploration_complete, answer, metadata (only if enabled), complete; each of
\* them but metadata and the tool events occurs exactly once by the end, and
\* complete is the last event.
C2_NormalEventOrder ==
    Returned =>
        /\ \A k \in 1..Len(events) : Rank(events[k]) <= 8
        /\ \A k \in 1..(Len(events) - 1) :
              \/ Rank(events[k]) < Rank(events[k + 1])
              \/ Rank(events[k]) = 4 /\ Rank(events[k + 1]) = 4
        /\ (7 \in Ranks) => ("include_metadata" \in DOMAIN options
                             /\ options.include_metadata)
        /\ Finished =>
              /\ Ranks \ {4, 7} = {1, 2, 3, 5, 6, 8}
              /\ Rank(events[Len(events)]) = 8
              /\ pc = "resolved"

C2_Witness ==
    /\ pc = "resolved"
    /\ Returned
    /\ CountEvents("tool_call") >= 2
    /\ CountEvents("content_read") >= 1
    /\ CountEvents("metadata") = 1

ErrorMessages == {events[k].message : k \in {j \in 1..Len(events) : events[j].event = "error"}}

\* C3 as stated: when the reasoning call throws, exactly one error event is
\* emitted and it carries the failure's message; no answer, metadata or complete
\* event is emitted, and the reasoning call is invoked at most once.
C3_ErrorCarriesFailureMessage ==
    /\ genCalls <= 1
    /\ (failure.thrown /\ pc = "resolved") =>
          /\ CountEvents("error") = 1
          /\ ErrorMessages = {failure.message}
          /\ CountEvents("answer") = 0
          /\ CountEvents("metadata") = 0
          /\ CountEvents("complete") = 0

\* C3 amended: when the reasoning call throws, exactly one error event is
\* emitted; it carries the failure's message when that message is not empty and
\* the fixed text 'An error occurred during reading' when it is empty; no
\* answer, metadata or complete event is emitted, and the reasoning call is
\* invoked at most once.
C3_SingleErrorNoRetry ==
    /\ genCalls <= 1
    /\ failure.thrown => (CountEvents("answer") = 0 /\ CountEvents("metadata") = 0
                          /\ CountEvents("complete") = 0)
    /\ (failure.thrown /\ pc = "resolved") =>
          /\ CountEvents("error") = 1
          /\ failure.message # "" => ErrorMessages = {failure.message}
          /\ failure.message = "" => ErrorMessages = {"An error occurred during reading"}

C3_Witness ==
    /\ pc = "resolved"
    /\ failure.thrown
    /\ failure.message = "transport failure"
    /\ steps >= 1
    /\ CountEvents("error") = 1

AnswerEmitted ==
    \E k \in 1..Len(events) : events[k].event = "answer" /\ events[k].answer = resultText

C21_OneToolAtATime == Len(pending) <= 1

\* the events that report exploration progress
ProgressEvents ==
    {k \in 1..Len(events) :
        \/ events[k].event \in ToolEventKinds
        \/ events[k].event = "status" /\ events[k].stage \in
              {"exploring", "exploration_complete"}}

\* C22: when max_iterations is absent from the options the controller fails
\* before any exploration progress event is emitted and before any generation
\* call is made, and the session ends with the error event.
C22_MissingBudgetFailsFast ==
    ~HasBudget =>
        /\ genCalls = 0
        /\ ProgressEvents = {}
        /\ Finished => CountEvents("error") = 1

\* the caller asked for the metadata event
MetadataRequested ==
    "include_metadata" \in DOMAIN options /\ options.include_metadata

\* C23: a metadata event is emitted if and only if include_metadata is true
\* and the reasoning call returned normally; it is emitted once, directly after
\* answer and directly before complete, and carries the session's counters;
\* with include_metadata false or absent there is never a metadata event.
C23_MetadataGated ==
    /\ CountEvents("metadata") <= 1
    /\ ~MetadataRequested => CountEvents("metadata") = 0
    /\ \A k \in 1..Len(events) :
          events[k].event = "metadata" =>
              /\ MetadataRequested
              /\ Returned
              /\ k > 1
              /\ events[k - 1].event = "answer"
              /\ events[k].stats = stats
              /\ events[k].stats.search_iterations = steps
              /\ events[k].stats.tool_calls = CountEvents("tool_call")
              /\ k < Len(events) => events[k + 1].event = "complete"
              /\ Finished => k < Len(events)
    /\ Finished =>
          (CountEvents("metadata") = 1 <=> (MetadataRequested /\ Returned))

C23_Witness ==
    /\ pc = "resolved"
    /\ MetadataRequested
    /\ CountEvents("metadata") = 1
    /\ stats.tool_calls = 2
    /\ stats.figure_analyses = 1

\* C24: the answer event carries exactly the text the reasoning call returned;
\* when that text is empty the controller still emits answer, with the empty
\* text, then (after metadata if requested) complete, and emits no error.
C24_AnswerVerbatim ==
    /\ \A k \in 1..Len(events) :
          events[k].event = "answer" =>
              /\ Returned
              /\ events[k].answer = resultText
    /\ (Finished /\ Returned) =>
          /\ CountEvents("answer") = 1
          /\ CountEvents("error") = 0
          /\ events[Len(events)].event = "complete"

C24_Witness ==
    /\ pc = "resolved"
    /\ resultText = ""
    /\ \E k \in 1..Len(events) : events[k].event = "answer" /\ events[k].answer = ""
    /\ events[Len(events)].event = "complete"
    /\ CountEvents("error") = 0

\* a step in which a tool was called or returned
ToolActed ==
    \/ stats'.tool_calls # stats.tool_calls
    \/ pending' # pending
    \/ lastTool' # lastTool

\* the counters a tool may increment
ToolCounters == {"tool_calls", "content_reads", "figure_analyses"}

\* C26: no invocation of readContent, searchContent, readFigure or readTable,
\* successful or failed, changes the document text; of the session's state it
\* changes the counters, which it only increments, and the event sequence,
\* which it only extends: the options, the caught failure and the number of
\* reasoning calls stay as they were.
C26_ToolsLeaveDocument ==
    [][ToolActed =>
          /\ fullContent' = fullContent
          /\ options' = options
          /\ failure' = failure
          /\ genCalls' = genCalls
          /\ Len(events') >= Len(events)
          /\ SubSeq(events', 1, Len(events)) = events
          /\ \A c \in ToolCounters : stats'[c] >= stats[c]
          /\ stats'.search_iterations = stats.search_iterations]_vars

\* a failed read and a failed figure analysis
\* have run and the document is the one the session was given
C26_Witness ==
    /\ pc = "resolved"
    /\ fullContent \in SessionDocs
    /\ stats.tool_calls = 2
    /\ CountEvents("tool_call") = 2
    /\ CountEvents("content_read") = 0
    /\ lastTool.tool = "readFigure"
    /\ ~lastTool.result.success

\* the tools whose result comes from a vision call
VisionTools == {"readFigure", "readTable"}

\* an invocation alone in its step whose vision call threw
FailedVisionStep ==
    /\ pc = "generate"
    /\ steps' = steps + 1
    /\ ~selfStopped'
    /\ lastTool'.tool \in VisionTools
    /\ ~lastTool'.input.ok

\* an invocation of a step with several tool calls whose vision call threw
FailedVisionSettle ==
    /\ pc = "tools"
    /\ Len(pending') < Len(pending)
    /\ ~lastTool'.input.ok

\* the structured failure handed back to the reasoning call
FailureReturned ==
    /\ ~lastTool'.result.success
    /\ "error" \in DOMAIN lastTool'.result
    /\ lastTool'.result.error.message = lastTool'.input.message
    /\ failure' = failure

\* where the reasoning call stands once a step is recorded
AfterStep ==
    IF StepCountIs(options, steps') THEN "exploration_complete" ELSE "generate"

ResultEventKinds == ToolEventKinds \ {"tool_call"}

ToolOfEvent(kind) ==
    CASE kind = "content_read" -> "readContent"
      [] kind = "figure_analyzed" -> "readFigure"
      [] kind = "table_extracted" -> "readTable"
      [] kind = "search_complete" -> "searchContent"

\* the input fields a result event repeats from its invocation
SameInvocation(call, result) ==
    CASE result.event = "content_read" ->
             /\ call.startPosition = result.startPosition
             /\ call.endPosition = result.endPosition
      [] result.event = "figure_analyzed" ->
             /\ call.imageUrl = result.imageUrl
             /\ call.query = result.query
      [] result.event = "table_extracted" -> call.imageUrl = result.imageUrl
      [] result.event = "search_complete" -> call.searchText = result.searchText

\* the tool_call events of a tool before position k, and the result events of
\* a kind up to position k
CallsBefore(k, tool) ==
    Cardinality({j \in 1..(k - 1) :
                    events[j].event = "tool_call" /\ events[j].tool = tool})

ResultsUpTo(k, kind) == Cardinality({j \in 1..k : events[j].event = kind})

\* C20: every result event in the sink is preceded by the tool_call event of
\* its own invocation (same tool, same inputs; up to any position a tool has
\* no more result events than tool_call events before it), and the sink's
\* record only grows at its end: events stay in the order in which they were
\* handed over.
C20_ResultAfterToolCall ==
    /\ [](\A k \in 1..Len(events) :
            events[k].event \in ResultEventKinds =>
                /\ \E j \in 1..(k - 1) :
                      /\ events[j].event = "tool_call"
                      /\ events[j].tool = ToolOfEvent(events[k].event)
                      /\ SameInvocation(events[j], events[k])
                /\ ResultsUpTo(k, events[k].event)
                      <= CallsBefore(k, ToolOfEvent(events[k].event)))
    /\ [][/\ Len(events') >= Len(events)
          /\ SubSeq(events', 1, Len(events)) = events]_vars

\* two invocations in one session, each result directly after its tool_call
C20_Witness ==
    /\ Len(events) >= 7
    /\ events[4].event = "tool_call" /\ events[4].tool = "readFigure"
    /\ events[5].event = "figure_analyzed"
    /\ events[6].event = "tool_call" /\ events[6].tool = "searchContent"
    /\ events[7].event = "search_complete"

-----------------------------------------------------------------------------
(* prepareStep on a growing message history *)

IdleSession ==
    /\ fullContent = <<>>
    /\ options = [model |-> "gpt-5"]
    /\ pc = "idle"
    /\ events = <<>>
    /\ stats = InitialStats
    /\ steps = 0
    /\ genCalls = 0
    /\ selfStopped = FALSE
    /\ resultText = NoText
    /\ failure = NoFailure
    /\ lastTool = NoTool
    /\ pending = <<>>

PrepareInit ==
    /\ messages = <<0>>
    /\ presented = NotPrepared
    /\ IdleSession
    /\ IdleChunker
    /\ IdleSummarizer
    /\ IdlePair
    /\ IdleCaller
    /\ IdleScripts

\* a turn adds one message to the accumulated history
AddMessage ==
    /\ Len(messages) < MaxMessages
    /\ messages' = Append(messages, Len(messages))
    /\ UNCHANGED <<presented, sessionVars, pairVars, callerVars, chunkVars, summaryVars>>

\* the reasoning call runs prepareStep on the accumulated history
CallPrepareStep ==
    /\ presented' = Prepared(messages)
    /\ UNCHANGED <<messages, sessionVars, pairVars, callerVars, chunkVars, summaryVars>>

PrepareNext == AddMessage \/ CallPrepareStep

PrepareSpec == PrepareInit /\ [][PrepareNext]_vars

-----------------------------------------------------------------------------
(* Properties of readContent inside a session *)

ReadInvoked == lastTool.tool = "readContent" /\ "result" \in DOMAIN lastTool

ReadStart == lastTool.input[1]
ReadEnd == lastTool.input[2]

OutOfRange(p) == p < 0 \/ p > Len(fullContent)

InvalidSpan == OutOfRange(ReadStart) \/ OutOfRange(ReadEnd) \/ ReadStart >= ReadEnd

\* a step of the session in which readContent ran and returned a failure
FailedReadStep ==
    /\ steps' = steps + 1
    /\ ~selfStopped'
    /\ lastTool'.tool = "readContent"
    /\ ~lastTool'.result.success

\* C6 as stated: an invalid span yields a structured failure whose error
\* carries a reason and the document length, in each failure case.
C6_FailureCarriesLength ==
    (ReadInvoked /\ InvalidSpan) =>
        /\ ~lastTool.result.success
        /\ "reason" \in DOMAIN lastTool.result.error
        /\ "documentLength" \in DOMAIN lastTool.result.error
        /\ lastTool.result.error.documentLength = Len(fullContent)

\* C6 amended: an invalid span yields a structured failure with a reason; when
\* a position lies outside [0, L] the error names that position and the
\* document length L, and when both lie inside and startPosition >= endPosition
\* it names the two positions (not the length); the session goes on after such
\* a failure.
C6_StructuredFailure ==
    /\ [](ReadInvoked =>
            LET res == lastTool.result
            IN  /\ res.success = ~InvalidSpan
                /\ InvalidSpan => "reason" \in DOMAIN res.error
                /\ OutOfRange(ReadStart) =>
                      /\ {"position", "documentLength"} \subseteq DOMAIN res.error
                      /\ res.error.position = ReadStart
                      /\ res.error.documentLength = Len(fullContent)
                /\ (~OutOfRange(ReadStart) /\ OutOfRange(ReadEnd)) =>
                      /\ {"position", "documentLength"} \subseteq DOMAIN res.error
                      /\ res.error.position = ReadEnd
                      /\ res.error.documentLength = Len(fullContent)
                /\ (~OutOfRange(ReadStart) /\ ~OutOfRange(ReadEnd)
                    /\ ReadStart >= ReadEnd) =>
                      /\ {"startPosition", "endPosition"} \subseteq DOMAIN res.error
                      /\ res.error.startPosition = ReadStart
                      /\ res.error.endPosition = ReadEnd
                      /\ "documentLength" \notin DOMAIN res.error)
    /\ [][FailedReadStep =>
            /\ pc' \in {"generate", "exploration_complete"}
            /\ failure' = failure]_vars

C6_Witness ==
    /\ pc = "resolved"
    /\ ReadInvoked
    /\ ~lastTool.result.success
    /\ ReadStart >= ReadEnd
    /\ ~OutOfRange(ReadStart)
    /\ CountEvents("answer") = 1
    /\ CountEvents("tool_call") >= 2

-----------------------------------------------------------------------------
(* One invocation of a tool built by createAgenticReaderTools *)

Alphabet == {"a", "A", "b"}

\* all strings over Alphabet of length at most n
Strings(n) == UNION {[1..k -> Alphabet] : k \in 0..n}

Positions == (0 - 1)..(MaxDocLen + 1)

\* inputs of searchContent: maxResults is optional
SearchInputs ==
    {[searchText |-> s, maxResults |-> m] :
        s \in Strings(MaxSearchLen), m \in (0 - 1)..MaxResultsInput}
    \cup {[searchText |-> s] : s \in Strings(MaxSearchLen)}

ToolInit ==
    /\ fullContent \in Strings(MaxDocLen)
    /\ options = [model |-> "gpt-5"]
    /\ pc = "ready"
    /\ events = <<>>
    /\ stats = InitialStats
    /\ steps = 0
    /\ genCalls = 0
    /\ selfStopped = FALSE
    /\ resultText = NoText
    /\ failure = NoFailure
    /\ lastTool = NoTool
    /\ pending = <<>>
    /\ IdleHistory
    /\ IdleChunker
    /\ IdleSummarizer
    /\ IdlePair
    /\ IdleCaller
    /\ IdleScripts

\* the tool ran and returned: its counters, its events and its result are kept
ToolReturned(r, tool, input) ==
    /\ stats' = r.stats
    /\ events' = r.events
    /\ lastTool' = [tool |-> tool, input |-> input, result |-> r.result]
    /\ pc' = "returned"
    /\ UNCHANGED <<fullContent, options, steps, genCalls, selfStopped,
                   resultText, failure>>
    /\ UNCHANGED <<historyVars, chunkVars, summaryVars, pending, pairVars, callerVars>>

CallReadContent(startPosition, endPosition) ==
    /\ pc = "ready"
    /\ ToolReturned(ReadContentExecute(fullContent, stats, events,
                                       startPosition, endPosition),
                    "readContent", <<startPosition, endPosition>>)

CallSearchContent(input) ==
    /\ pc = "ready"
    /\ ToolReturned(SearchContentExecute(fullContent, stats, events, input),
                    "searchContent", input)

ToolNext ==
    \/ \E s \in Positions, e \in Positions : CallReadContent(s, e)
    \/ \E input \in SearchInputs : CallSearchContent(input)

ToolSpec == ToolInit /\ [][ToolNext]_vars

\* C7: for 0 <= s < e <= L, readContent(s, e) succeeds and returns exactly the
\* characters s..e-1 of the document, contentLength = e - s,
\* totalDocumentLength = L, hasMoreBefore = (s > 0), hasMoreAfter = (e < L);
\* readContent(0, L) returns the whole document with both flags false.
C7_ReadReturnsSubstring ==
    (ReadInvoked /\ 0 <= ReadStart /\ ReadStart < ReadEnd /\ ReadEnd <= Len(fullContent)) =>
        LET res == lastTool.result
        IN  /\ res.success
            /\ Len(res.content) = ReadEnd - ReadStart
            /\ \A k \in 1..(ReadEnd - ReadStart) :
                  res.content[k] = fullContent[ReadStart + k]
            /\ res.metadata.contentLength = ReadEnd - ReadStart
            /\ res.metadata.totalDocumentLength = Len(fullContent)
            /\ res.metadata.hasMoreBefore = (ReadStart > 0)
            /\ res.metadata.hasMoreAfter = (ReadEnd < Len(fullContent))
            /\ (ReadStart = 0 /\ ReadEnd = Len(fullContent)) =>
                  /\ res.content = fullContent
                  /\ ~res.metadata.hasMoreBefore
                  /\ ~res.metadata.hasMoreAfter

C7_Witness ==
    /\ pc = "returned"
    /\ ReadInvoked
    /\ lastTool.result.success
    /\ ReadStart = 1
    /\ ReadEnd = 3
    /\ Len(fullContent) = 4
    /\ lastTool.result.content = <<"A", "b">>

SearchInvoked == lastTool.tool = "searchContent" /\ "result" \in DOMAIN lastTool

SearchedText == lastTool.input.searchText

\* the searched text occurs in the document at 0-based position p, ignoring case
Occurs(p) ==
    /\ 0 <= p
    /\ p + Len(SearchedText) <= Len(fullContent)
    /\ \A k \in 1..Len(SearchedText) :
          LowerChar(fullContent[p + k]) = LowerChar(SearchedText[k])

MatchPos(k) == lastTool.result.results[k].position

\* end of the k-th returned match; 0 before the first
MatchEnd(k) == IF k = 0 THEN 0 ELSE MatchPos(k) + Len(SearchedText)

\* C8: searchContent returns at most maxResults matches, each at a position
\* where the text occurs case-insensitively, in strictly ascending order, each
\* starting at or after the end of the previous one, and they are the leftmost
\* such occurrences.
C8_LeftmostNonOverlappingMatches ==
    SearchInvoked =>
        LET found == Len(lastTool.result.results)
        IN  /\ found <= Max(MaxResultsOf(lastTool.input), 0)
            /\ \A k \in 1..found : Occurs(MatchPos(k))
            /\ \A k \in 1..(found - 1) :
                  /\ MatchPos(k) < MatchPos(k + 1)
                  /\ MatchEnd(k) <= MatchPos(k + 1)
            /\ \A k \in 1..found :
                  ~\E q \in MatchEnd(k - 1)..(MatchPos(k) - 1) : Occurs(q)

\* number of occurrences a left-to-right scan finds from position from on when
\* no two of them overlap or coincide
RECURSIVE OccurrencesFrom(_)
OccurrencesFrom(from) ==
    LET ps == {p \in from..Len(fullContent) : Occurs(p)}
    IN  IF ps = {} THEN 0
        ELSE LET first == CHOOSE p \in ps : \A q \in ps : p <= q
             IN  1 + OccurrencesFrom(first + Max(Len(SearchedText), 1))

\* C9: hasMore is true exactly when a further occurrence exists at or after
\* the end of the last returned match; when the document holds n <= maxResults
\* non-overlapping occurrences, exactly n results are returned,
\* resultsFound = n and hasMore is false.
C9_HasMoreExact ==
    SearchInvoked =>
        LET res   == lastTool.result
            found == Len(res.results)
            n     == OccurrencesFrom(0)
        IN  /\ res.hasMore = (\E p \in MatchEnd(found)..Len(fullContent) : Occurs(p))
            /\ n <= MaxResultsOf(lastTool.input) =>
                  /\ found = n
                  /\ res.resultsFound = n
                  /\ ~res.hasMore

\* the two properties for a search text that is not empty
SearchNonEmptyHolds ==
    (SearchInvoked /\ SearchedText # <<>>) =>
        (C8_LeftmostNonOverlappingMatches /\ C9_HasMoreExact)

-----------------------------------------------------------------------------
(* searchContent on documents longer than the context window *)

MaxPad == 52

\* n copies of the character c
Repeat(c, n) == [k \in 1..n |-> c]

\* documents with one "b" between two runs of "a", each run shorter or longer
\* than the context radius
PaddedDocs ==
    {Repeat("a", before) \o <<"b">> \o Repeat("a", after) :
        before \in 0..MaxPad, after \in 0..MaxPad}

ContextInputs ==
    {[searchText |-> <<"B">>, maxResults |-> 1],
     [searchText |-> <<"b", "a">>],
     [searchText |-> <<"a", "A">>, maxResults |-> 2]}

ContextInit ==
    /\ fullContent \in PaddedDocs
    /\ options = [model |-> "gpt-5"]
    /\ pc = "ready"
    /\ events = <<>>
    /\ stats = InitialStats
    /\ steps = 0
    /\ genCalls = 0
    /\ selfStopped = FALSE
    /\ resultText = NoText
    /\ failure = NoFailure
    /\ lastTool = NoTool
    /\ pending = <<>>
    /\ IdleHistory
    /\ IdleChunker
    /\ IdleSummarizer
    /\ IdlePair
    /\ IdleCaller
    /\ IdleScripts

ContextNext == \E input \in ContextInputs : CallSearchContent(input)

ContextSpec == ContextInit /\ [][ContextNext]_vars

\* the context returned with the k-th match
MatchContextOf(k) == lastTool.result.results[k].context

\* C27: for a match at position p of a search text of length n in a document
\* of length L the context is the marker "...", then the document characters
\* [max(0, p - 50), min(L, p + n + 50)), then the marker "..."; the markers are
\* there also when the window is cut at the start or the end of the document.
C27_ContextWindow ==
    SearchInvoked =>
        \A k \in 1..Len(lastTool.result.results) :
            LET p     == MatchPos(k)
                n     == Len(SearchedText)
                L     == Len(fullContent)
                from  == IF p - ContextRadius < 0 THEN 0 ELSE p - ContextRadius
                to    == IF p + n + ContextRadius > L THEN L ELSE p + n + ContextRadius
                ctx   == MatchContextOf(k)
            IN  /\ Len(ctx) = (to - from) + 6
                /\ SubSeq(ctx, 1, 3) = <<".", ".", ".">>
                /\ SubSeq(ctx, 4, Len(ctx) - 3) = SubSeq(fullContent, from + 1, to)
                /\ SubSeq(ctx, Len(ctx) - 2, Len(ctx)) = <<".", ".", ".">>

\* a match with more than 50 characters on either side: the window is cut on
\* neither side and holds 50 + 1 + 50 characters
C27_Witness ==
    /\ SearchInvoked
    /\ Len(lastTool.result.results) = 1
    /\ MatchPos(1) = ContextRadius + 1
    /\ Len(fullContent) = MatchPos(1) + 1 + ContextRadius + 1
    /\ Len(MatchContextOf(1)) = 2 * ContextRadius + 1 + 6

\* a match whose window is cut at both ends of the document
ContextClampedReached ==
    /\ SearchInvoked
    /\ Len(lastTool.result.results) = 1
    /\ MatchPos(1) = 2
    /\ Len(fullContent) = 4
    /\ MatchContextOf(1) = Ellipsis \o fullContent \o Ellipsis

-----------------------------------------------------------------------------
(* htmlToMarkdownChunks *)

HtmlAlphabet == {"x", "y", "<script>"}

HtmlDocs == UNION {[1..k -> HtmlAlphabet] : k \in 0..MaxHtmlLen}

\* turndownService.turndown(html) with style and script elements removed
\* (lines 30-40): the text keeps every character that is not such an element
Turndown(h) == SelectSeq(h, LAMBDA c : c # "<script>")

\* variant of StepSize that adds the overlap
StepSizePlusOverlap(size, over) == size + over

\* const stepSize = chunkSize - overlap (line 56)
StepSize(size, over) == size - over

\* cap on the chunks of a run whose loop does not end
MaxChunks == MaxHtmlLen + 2

\* variant of SingleChunk that leaves totalChunks at its placeholder
SingleChunkNoTotal(markdown) ==
    <<[content |-> markdown, chunkIndex |-> 0, startChar |-> 0,
       endChar |-> Len(markdown), totalChunks |-> 0]>>

\* the list returned when the text fits one chunk (lines 44-52)
SingleChunk(markdown) ==
    <<[content |-> markdown, chunkIndex |-> 0, startChar |-> 0,
       endChar |-> Len(markdown), totalChunks |-> 1]>>

\* variant of ChunkIndexOf that counts from one
ChunkIndexFromOne(list) == Len(list) + 1

\* chunkIndex: chunks.length (line 70)
ChunkIndexOf(list) == Len(list)

\* variant of EndCharOf that does not clamp to the text length
EndCharUnclamped(start, size, len) == start + size

\* const endChar = Math.min(i + chunkSize, markdown.length) (line 62)
EndCharOf(start, size, len) == Min(start + size, len)

ChunkInit ==
    /\ html \in HtmlDocs
    /\ chunkSize \in 1..MaxChunkSize
    /\ overlap \in 0..(MaxChunkSize + 1)
    /\ i = 0
    /\ chunks = <<>>
    /\ cpc = "start"
    /\ IdleSession
    /\ IdleHistory
    /\ IdleSummarizer
    /\ IdlePair
    /\ IdleCaller
    /\ IdleScripts

\* lines 39-57: conversion, the single-chunk case, the loop initialisation
ChunkStart ==
    /\ cpc = "start"
    /\ LET markdown == Turndown(html)
       IN  IF Len(markdown) <= chunkSize
           THEN /\ chunks' = SingleChunk(markdown)
                /\ cpc' = "done"
           ELSE /\ chunks' = <<>>
                /\ cpc' = "loop"
    /\ i' = 0
    /\ UNCHANGED <<html, chunkSize, overlap, sessionVars, pairVars, callerVars, historyVars, summaryVars>>

\* one pass of the for loop (lines 60-77)
ChunkIterate ==
    /\ cpc = "loop"
    /\ Len(chunks) < MaxChunks
    /\ LET markdown  == Turndown(html)
           startChar == i
           endChar   == EndCharOf(i, chunkSize, Len(markdown))
       IN  IF ~(i < Len(markdown))
           THEN /\ cpc' = "finish"
                /\ UNCHANGED <<i, chunks>>
           ELSE /\ chunks' = Append(chunks,
                                    [content |-> Slice(markdown, startChar, endChar),
                                     chunkIndex |-> ChunkIndexOf(chunks),
                                     startChar |-> startChar,
                                     endChar |-> endChar,
                                     totalChunks |-> 0])
                /\ IF endChar >= Len(markdown)
                   THEN cpc' = "finish" /\ i' = i
                   ELSE cpc' = "loop" /\ i' = i + StepSize(chunkSize, overlap)
    /\ UNCHANGED <<html, chunkSize, overlap, sessionVars, pairVars, callerVars, historyVars, summaryVars>>

\* lines 79-85: totalChunks is written into every chunk and the list returned
ChunkFinish ==
    /\ cpc = "finish"
    /\ chunks' = [k \in 1..Len(chunks) |-> [chunks[k] EXCEPT !.totalChunks = Len(chunks)]]
    /\ cpc' = "done"
    /\ UNCHANGED <<html, chunkSize, overlap, i, sessionVars, pairVars, callerVars, historyVars, summaryVars>>

ChunkNext == ChunkStart \/ ChunkIterate \/ ChunkFinish

ChunkSpec == ChunkInit /\ [][ChunkNext]_vars

\* C10: for overlap < chunkSize the returned spans cover every position of
\* [0, L), every consecutive pair of chunks other than the final pair overlaps
\* by exactly overlap = chunkSize - step characters, and every chunk's
\* totalChunks is the number of chunks returned.
C10_ChunksCoverDocument ==
    (cpc = "done" /\ overlap < chunkSize) =>
        LET L == Len(Turndown(html))
            n == Len(chunks)
        IN  /\ \A p \in 0..(L - 1) :
                  \E k \in 1..n : chunks[k].startChar <= p /\ p < chunks[k].endChar
            /\ \A k \in 1..(n - 2) :
                  chunks[k].endChar - chunks[k + 1].startChar = overlap
            /\ \A k \in 1..n : chunks[k].totalChunks = n

C10_Witness ==
    /\ cpc = "done"
    /\ overlap = 1
    /\ chunkSize = 2
    /\ Len(chunks) >= 3
    /\ chunks[Len(chunks)].endChar = Len(Turndown(html))
    /\ Len(Turndown(html)) < Len(html)

\* the converted text the chunker works on
Markdown == Turndown(html)

\* the chunker has returned its list
ChunksReturned == cpc = "done"

\* C11: when chunkSize <= overlap the chunker fails with a configuration
\* error and terminates: it never enters the loop and never returns a chunk
\* sequence.
C11_NonPositiveStepRejected ==
    (chunkSize <= overlap /\ cpc # "start") =>
        /\ cpc = "failed"
        /\ chunks = <<>>

\* with chunkSize <= overlap and a text longer than chunkSize the loop is
\* entered and never left
NonPositiveStepLoops ==
    (chunkSize <= overlap /\ Len(Markdown) > chunkSize /\ cpc # "start") =>
        /\ cpc = "loop"
        /\ i <= 0
        /\ \A k \in 1..Len(chunks) : chunks[k].endChar < Len(Markdown)

\* C12 as stated: every returned chunk, the empty text included, satisfies
\* 0 <= startChar < endChar <= text length, and chunkIndex is the chunk's
\* position in the returned sequence.
C12_ChunkBounds ==
    ChunksReturned =>
        \A k \in 1..Len(chunks) :
            /\ 0 <= chunks[k].startChar
            /\ chunks[k].startChar < chunks[k].endChar
            /\ chunks[k].endChar <= Len(Markdown)
            /\ chunks[k].chunkIndex = k - 1

\* C12 amended: every returned chunk satisfies 0 <= startChar <= endChar <=
\* text length with chunkIndex equal to its position; startChar < endChar
\* holds for every non-empty text, and for the empty text the one chunk
\* returned is the empty span [0, 0).
C12_ChunkBoundsNonEmptyText ==
    ChunksReturned =>
        /\ \A k \in 1..Len(chunks) :
              /\ 0 <= chunks[k].startChar
              /\ chunks[k].startChar <= chunks[k].endChar
              /\ chunks[k].endChar <= Len(Markdown)
              /\ chunks[k].chunkIndex = k - 1
              /\ Len(Markdown) > 0 => chunks[k].startChar < chunks[k].endChar
        /\ Len(Markdown) = 0 =>
              /\ Len(chunks) = 1
              /\ chunks[1].startChar = 0
              /\ chunks[1].endChar = 0

C12_Witness ==
    /\ ChunksReturned
    /\ Len(chunks) >= 2
    /\ chunks[2].chunkIndex = 1
    /\ chunks[Len(chunks)].endChar - chunks[Len(chunks)].startChar < chunkSize

\* C13: a text no longer than chunkSize is returned as exactly one chunk with
\* chunkIndex 0, startChar 0, endChar the text length, the whole text as
\* content and totalChunks 1.
C13_ShortTextSingleChunk ==
    (ChunksReturned /\ Len(Markdown) <= chunkSize) =>
        /\ Len(chunks) = 1
        /\ chunks[1].chunkIndex = 0
        /\ chunks[1].startChar = 0
        /\ chunks[1].endChar = Len(Markdown)
        /\ chunks[1].content = Markdown
        /\ chunks[1].totalChunks = 1

C13_Witness ==
    /\ ChunksReturned
    /\ Len(Markdown) = chunkSize
    /\ Len(Markdown) < Len(html)
    /\ chunkSize > 1

\* C14: for a text of length L > chunkSize and 0 <= overlap < chunkSize the
\* loop ends (before every chunk the loop variable is k * step and below L),
\* chunk k is exactly [k * step, min(k * step + chunkSize, L)) with
\* step = chunkSize - overlap, and the last chunk alone has endChar = L.
C14_ChunkSpans ==
    LET L    == Len(Markdown)
        step == chunkSize - overlap
        n    == Len(chunks)
    IN  (L > chunkSize /\ overlap < chunkSize) =>
            /\ cpc = "loop" => (i = n * step /\ i < L /\ n < MaxChunks)
            /\ cpc \in {"loop", "finish", "done"} =>
                  \A k \in 1..n :
                      /\ chunks[k].startChar = (k - 1) * step
                      /\ chunks[k].endChar = Min((k - 1) * step + chunkSize, L)
                      /\ chunks[k].content =
                            Slice(Markdown, chunks[k].startChar, chunks[k].endChar)
            /\ ChunksReturned =>
                  /\ n >= 1
                  /\ \A k \in 1..n : (chunks[k].endChar = L) <=> (k = n)

\* the shape of the example 12000 / 5000 / 1000: three chunks, the last one
\* shorter than chunkSize
C14_Witness ==
    /\ ChunksReturned
    /\ Len(Markdown) = 6
    /\ chunkSize = 3
    /\ overlap = 1
    /\ Len(chunks) = 3
    /\ chunks[2].startChar = 2 /\ chunks[2].endChar = 5
    /\ chunks[3].startChar = 4 /\ chunks[3].endChar = 6

-----------------------------------------------------------------------------
(* generateChunkSummaries *)

MaxSummaryChunks == 4
MaxConcurrency == 3

\* the chunk lists handed to generateChunkSummaries: k consecutive one-character
\* chunks of a k-character text
ChunkList(n) ==
    [k \in 1..n |-> [content |-> <<"x">>, chunkIndex |-> k - 1,
                     startChar |-> k - 1, endChar |-> k, totalChunks |-> n]]

SummaryInputs == {ChunkList(n) : n \in 0..MaxSummaryChunks}

\* texts a generation call may return
SummaryTexts == {"summary one", "summary two"}

\* an array slot that has not been assigned (new Array(chunks.length), line 120)
EmptySlot == [empty |-> TRUE]

Filled(slot) == "summary" \in DOMAIN slot

\* no generation call issued yet for a chunk
NoCall == [issued |-> 0, text |-> NoText]

\* variant of WorkerCount that starts one worker per chunk
WorkerCountPerChunk(limit, n) == n

\* Math.min(maxConcurrency, chunks.length) (line 148)
WorkerCount(limit, n) == Min(limit, n)

\* variant of AfterShift that leaves the item in the queue
AfterPeek(q) == q

\* the queue after queue.shift() (line 151)
AfterShift(q) == Tail(q)

\* variant of ResultSlot that writes in completion order
ResultSlotByCompletion(item, done) == done

\* results[index] = ... (line 135): the slot is the item's own index
ResultSlot(item, done) == item.index

\* variant of PromiseAll that waits for every worker and never rejects
PromiseAllSettled(ws) ==
    IF \A w \in 1..Len(ws) : ws[w].state # "awaiting"
    THEN "returned"
    ELSE "awaiting"

\* await Promise.all(workers); return results (lines 160-163): the call rejects
\* as soon as one worker has rejected and returns once every worker resolved
PromiseAll(ws) ==
    IF \E w \in 1..Len(ws) : ws[w].state = "rejected"
    THEN "rejected"
    ELSE IF \A w \in 1..Len(ws) : ws[w].state = "resolved"
         THEN "returned"
         ELSE "awaiting"

\* variant of WorkersRun in which a rejection stops the other workers
WorkersRunUntilRejection(state) == state = "awaiting"

\* the workers are plain promises (lines 148-158) that nothing cancels: their
\* calls settle and their loops go on whether or not Promise.all has rejected
WorkersRun(state) == state \in {"awaiting", "rejected"}

\* the body of a worker from its while test to its next await (lines 150-155):
\* it takes the head of the queue and issues that chunk's generation call, or
\* resolves when the queue is empty
WorkerAdvance(q, cs) ==
    IF Len(q) > 0
    THEN LET item == Head(q)
         IN  [queue  |-> AfterShift(q),
              calls  |-> [cs EXCEPT ![item.index + 1].issued = @ + 1],
              worker |-> [state |-> "awaiting", item |-> item]]
    ELSE [queue |-> q, calls |-> cs, worker |-> [state |-> "resolved"]]

SummaryInit ==
    /\ inputChunks \in SummaryInputs
    /\ maxConcurrency \in (-1)..MaxConcurrency
    /\ queue = <<>>
    /\ results = <<>>
    /\ completed = 0
    /\ workers = <<>>
    /\ calls = <<>>
    /\ spc = "start"
    /\ IdleSession
    /\ IdleHistory
    /\ IdleChunker
    /\ IdlePair
    /\ IdleCaller
    /\ IdleScripts

\* lines 120-146: the result array, the counter, the queue, the worker list
SummariesStart ==
    /\ spc = "start"
    /\ results' = [k \in 1..Len(inputChunks) |-> EmptySlot]
    /\ completed' = 0
    /\ queue' = [k \in 1..Len(inputChunks) |->
                    [chunk |-> inputChunks[k], index |-> k - 1]]
    /\ workers' = <<>>
    /\ calls' = [k \in 1..Len(inputChunks) |-> NoCall]
    /\ spc' = "spawn"
    /\ UNCHANGED <<inputChunks, maxConcurrency, sessionVars, pairVars, callerVars, historyVars, chunkVars>>

\* one pass of the for loop (lines 148-158): the worker is created and runs
\* synchronously up to its first await
SpawnWorker ==
    /\ spc = "spawn"
    /\ Len(workers) < WorkerCount(maxConcurrency, Len(inputChunks))
    /\ LET adv == WorkerAdvance(queue, calls)
       IN  /\ queue' = adv.queue
           /\ calls' = adv.calls
           /\ workers' = Append(workers, adv.worker)
    /\ UNCHANGED <<inputChunks, maxConcurrency, results, completed, spc,
                   sessionVars, pairVars, callerVars, historyVars, chunkVars>>

\* the for loop ends and the function awaits its workers (line 160)
AwaitWorkers ==
    /\ spc = "spawn"
    /\ ~(Len(workers) < WorkerCount(maxConcurrency, Len(inputChunks)))
    /\ spc' = PromiseAll(workers)
    /\ UNCHANGED <<inputChunks, maxConcurrency, queue, results, completed,
                   workers, calls, sessionVars, pairVars, callerVars, historyVars, chunkVars>>

\* a generation call returns its text: the slot is written, the counter
\* incremented (lines 130-140) and the worker goes round its loop
GenerationResolves(w, text) ==
    /\ WorkersRun(spc)
    /\ w \in 1..Len(workers)
    /\ workers[w].state = "awaiting"
    /\ LET item == workers[w].item
           slot == ResultSlot(item, completed) + 1
           adv  == WorkerAdvance(queue,
                                 [calls EXCEPT ![item.index + 1].text = text])
       IN  /\ results' = [results EXCEPT ![slot] =
                             [content     |-> item.chunk.content,
                              chunkIndex  |-> item.chunk.chunkIndex,
                              startChar   |-> item.chunk.startChar,
                              endChar     |-> item.chunk.endChar,
                              totalChunks |-> item.chunk.totalChunks,
                              summary     |-> text]]
           /\ completed' = completed + 1
           /\ queue' = adv.queue
           /\ calls' = adv.calls
           /\ workers' = [workers EXCEPT ![w] = adv.worker]
           /\ spc' = PromiseAll([workers EXCEPT ![w] = adv.worker])
    /\ UNCHANGED <<inputChunks, maxConcurrency, sessionVars, pairVars, callerVars, historyVars, chunkVars>>

\* a generation call throws: generateSummary and the worker awaiting it reject
GenerationRejects(w) ==
    /\ WorkersRun(spc)
    /\ w \in 1..Len(workers)
    /\ workers[w].state = "awaiting"
    /\ workers' = [workers EXCEPT ![w] = [state |-> "rejected", item |-> @.item]]
    /\ spc' = PromiseAll([workers EXCEPT ![w] = [state |-> "rejected", item |-> @.item]])
    /\ UNCHANGED <<inputChunks, maxConcurrency, queue, results, completed,
                   calls, sessionVars, pairVars, callerVars, historyVars, chunkVars>>

SummaryNext ==
    \/ SummariesStart
    \/ SpawnWorker
    \/ AwaitWorkers
    \/ \E w \in 1..MaxConcurrency, text \in SummaryTexts : GenerationResolves(w, text)
    \/ \E w \in 1..MaxConcurrency : GenerationRejects(w)

SummarySpec == SummaryInit /\ [][SummaryNext]_vars

\* the workers whose generation call has not settled
InFlight == {w \in 1..Len(workers) : workers[w].state = "awaiting"}

\* the for loop that creates the workers has ended
WorkersStarted == spc \in {"awaiting", "returned", "rejected"}

\* the result array was handed to the caller
SummariesReturned == spc = "returned"

\* slot k holds input chunk k with a summary
HoldsChunk(k) ==
    /\ Filled(results[k])
    /\ results[k].chunkIndex = inputChunks[k].chunkIndex
    /\ results[k].content = inputChunks[k].content
    /\ results[k].startChar = inputChunks[k].startChar
    /\ results[k].endChar = inputChunks[k].endChar

\* C15: for maxConcurrency >= 1, under every order of completions, every
\* written slot i holds input chunk i and the text returned by the generation
\* call issued for chunk i, and the returned sequence has every slot written.
C15_SlotsFollowInputOrder ==
    (maxConcurrency >= 1 /\ spc # "start") =>
        /\ Len(results) = Len(inputChunks)
        /\ \A k \in 1..Len(results) :
              Filled(results[k]) =>
                  /\ HoldsChunk(k)
                  /\ calls[k].issued = 1
                  /\ results[k].summary = calls[k].text
        /\ SummariesReturned => \A k \in 1..Len(results) : Filled(results[k])

C15_Witness ==
    /\ SummariesReturned
    /\ maxConcurrency = 2
    /\ Len(inputChunks) = MaxSummaryChunks
    /\ results[1].summary # results[2].summary
    /\ results[3].summary # results[4].summary

HeldIndexes == {workers[w].item.index : w \in InFlight}
QueuedIndexes == {queue[k].index : k \in 1..Len(queue)}

\* a slot once written is not written again
SlotsWrittenOnce ==
    \A k \in 1..Len(results) :
        (k \in 1..Len(results') /\ Filled(results[k])) => results'[k] = results[k]

\* C17: every queue item is taken by at most one worker: at most one generation
\* call is issued per chunk, no two workers hold the same item, no item is both
\* held and queued, and no result slot is written twice.
C17_ItemsTakenOnce ==
    /\ [](spc \notin {"idle", "start"} =>
            /\ \A k \in 1..Len(calls) : calls[k].issued <= 1
            /\ \A w1, w2 \in InFlight :
                  workers[w1].item.index = workers[w2].item.index => w1 = w2
            /\ HeldIndexes \cap QueuedIndexes = {}
            /\ \A k1, k2 \in 1..Len(queue) :
                  queue[k1].index = queue[k2].index => k1 = k2)
    /\ [][SlotsWrittenOnce]_vars

C17_Witness ==
    /\ spc = "awaiting"
    /\ Cardinality(InFlight) = 3
    /\ Len(queue) = 0
    /\ completed = 1
    /\ \A k \in 1..Len(calls) : calls[k].issued = 1

\* some worker's generation call has failed
GenerationFailed == \E w \in 1..Len(workers) : workers[w].state = "rejected"

\* C18: once the generation call of any chunk has failed the function has
\* rejected: it never returns a result array, complete or partial.
C18_FailureRejectsAll ==
    /\ GenerationFailed => spc = "rejected"
    /\ SummariesReturned => ~GenerationFailed

C18_Witness ==
    /\ spc = "rejected"
    /\ \E k \in 1..Len(results) : Filled(results[k])
    /\ \E k \in 1..Len(results) : ~Filled(results[k])
    /\ Len(queue) = 0
    /\ InFlight = {}

\* C29: after the generation call of one chunk has failed, every call still
\* in flight can settle, and a surviving worker whose call returns while items
\* are queued takes the next item and issues its generation call.
C29_FailureDoesNotCancel ==
    /\ [](spc = "rejected" =>
            \A w \in InFlight :
                /\ ENABLED (\E text \in SummaryTexts : GenerationResolves(w, text))
                /\ ENABLED GenerationRejects(w))
    /\ [][(spc = "rejected" /\ completed' = completed + 1 /\ Len(queue) > 0) =>
            /\ queue' = Tail(queue)
            /\ calls'[Head(queue).index + 1].issued = 1
            /\ \E w \in 1..Len(workers) :
                  /\ workers[w].state = "awaiting"
                  /\ workers'[w] = [state |-> "awaiting", item |-> Head(queue)]]_vars

\* one call has failed before any completed; another is in flight and two
\* items are still queued
C29_Witness ==
    /\ spc = "rejected"
    /\ maxConcurrency = 2
    /\ Len(inputChunks) = 4
    /\ Cardinality(InFlight) = 1
    /\ Len(queue) = 2
    /\ completed = 0

\* the surviving worker has worked the queue off after the failure of chunk 0
SurvivorFinishedReached ==
    /\ spc = "rejected"
    /\ maxConcurrency = 2
    /\ Len(inputChunks) = 4
    /\ workers[1] = [state |-> "rejected", item |-> [chunk |-> inputChunks[1], index |-> 0]]
    /\ workers[2].state = "resolved"
    /\ completed = 3
    /\ \A k \in 2..4 : Filled(results[k])

\* C30: whenever generateChunkSummaries returns, for every maxConcurrency (0
\* and negative values included) and every chunk count, every one of the
\* chunks.length slots holds its chunk with a summary and the queue is empty.
C30_NoMissingSlot ==
    SummariesReturned =>
        /\ Len(results) = Len(inputChunks)
        /\ \A k \in 1..Len(results) : HoldsChunk(k)
        /\ queue = <<>>

\* for maxConcurrency >= 1 the same property holds
NoMissingSlotWithWorkers == maxConcurrency >= 1 => C30_NoMissingSlot

-----------------------------------------------------------------------------
(* two sessions of agenticReaderWithEvents interleaved in one process *)

MaxSessionCalls == 2

SessionIds == {1, 2}

\* the document each session explores
PairDoc(s) == IF s = 1 THEN <<"a", "B">> ELSE <<"b">>

\* a session that has not been called yet has no counters
NoStats == [created |-> FALSE]

\* variant of ContextOf in which every session's tools use one stats object
SharedContext(s) == 1

\* createAgenticReaderTools({fullContent, stats, emitEvent}) (lines 65-69): the
\* tools of a session close over the stats object created by that call
ContextOf(s) == s

PairInit ==
    /\ sessions = [s \in SessionIds |->
                      [pc |-> "new", stats |-> NoStats, events |-> <<>>,
                       waiting |-> "none", calls |-> 0]]
    /\ IdleSession
    /\ IdleHistory
    /\ IdleChunker
    /\ IdleSummarizer
    /\ IdleCaller
    /\ IdleScripts

PairUnchanged ==
    UNCHANGED <<sessionVars, historyVars, chunkVars, summaryVars, callerVars>>

\* agenticReader.ts lines 38-69: the counters are created, the tools are built
PairStart(s) ==
    /\ sessions[s].pc = "new"
    /\ sessions' = [sessions EXCEPT ![s].pc = "running",
                                    ![ContextOf(s)].stats = InitialStats]
    /\ PairUnchanged

\* the outcome of a tool of session s written back: the counters go to the
\* stats object the tools closed over, the events to the session's own sink
PairWrite(s, newStats, newEvents, waiting, counted) ==
    sessions' = [sessions EXCEPT ![ContextOf(s)].stats = newStats,
                                 ![s].events = newEvents,
                                 ![s].waiting = waiting,
                                 ![s].calls = @ + counted]

PairCanCall(s) ==
    /\ sessions[s].pc = "running"
    /\ sessions[s].waiting = "none"
    /\ sessions[s].calls < MaxSessionCalls
    /\ sessions[ContextOf(s)].stats # NoStats

\* a readContent invocation of session s
PairReadContent(s, startPosition, endPosition) ==
    /\ PairCanCall(s)
    /\ LET r == ReadContentExecute(PairDoc(s), sessions[ContextOf(s)].stats,
                                   sessions[s].events, startPosition, endPosition)
       IN  PairWrite(s, r.stats, r.events, "none", 1)
    /\ PairUnchanged

\* a searchContent invocation of session s
PairSearchContent(s, input) ==
    /\ PairCanCall(s)
    /\ LET r == SearchContentExecute(PairDoc(s), sessions[ContextOf(s)].stats,
                                     sessions[s].events, input)
       IN  PairWrite(s, r.stats, r.events, "none", 1)
    /\ PairUnchanged

\* a readFigure / readTable invocation of session s runs up to its await
PairBeginVision(s, tool) ==
    /\ PairCanCall(s)
    /\ LET b == VisionBegin(tool, sessions[ContextOf(s)].stats, sessions[s].events)
       IN  PairWrite(s, b.stats, b.events, tool, 1)
    /\ PairUnchanged

\* the vision call of session s settles and the invocation returns
PairSettleVision(s, vision) ==
    /\ sessions[s].pc = "running"
    /\ sessions[s].waiting # "none"
    /\ LET r == VisionSettle(sessions[s].waiting, sessions[s].events, vision)
       IN  PairWrite(s, sessions[ContextOf(s)].stats, r.events, "none", 0)
    /\ PairUnchanged

\* agenticReader.ts line 129 and the end of the session
PairFinish(s) ==
    /\ sessions[s].pc = "running"
    /\ sessions[s].waiting = "none"
    /\ sessions[ContextOf(s)].stats # NoStats
    /\ sessions' = [sessions EXCEPT
                       ![s].pc = "done",
                       ![ContextOf(s)].stats.search_iterations = sessions[s].calls]
    /\ PairUnchanged

PairReads == {<<0, 1>>, <<1, 1>>}

PairNext ==
    \E s \in SessionIds :
        \/ PairStart(s)
        \/ \E r \in PairReads : PairReadContent(s, r[1], r[2])
        \/ \E input \in SessionSearches : PairSearchContent(s, input)
        \/ \E tool \in VisionTools : PairBeginVision(s, tool)
        \/ \E vision \in VisionOutcomes : PairSettleVision(s, vision)
        \/ PairFinish(s)

PairSpec == PairInit /\ [][PairNext]_vars

\* the tool_call events of a session's own sink, all of them or those of one tool
OwnCalls(s) ==
    {k \in 1..Len(sessions[s].events) : sessions[s].events[k].event = "tool_call"}

OwnCallsOf(s, tool) == {k \in OwnCalls(s) : sessions[s].events[k].tool = tool}

CounterNames == {"tool_calls", "content_reads", "figure_analyses", "search_iterations"}

\* session s took no step
Untouched(s) ==
    /\ sessions'[s].pc = sessions[s].pc
    /\ sessions'[s].events = sessions[s].events
    /\ sessions'[s].waiting = sessions[s].waiting
    /\ sessions'[s].calls = sessions[s].calls

\* C25: a session's four counters are 0 when the session starts and never
\* decrease; a session that takes no step keeps its counters whatever the
\* other session does, and at every moment its counters count the tool calls
\* of its own sink only, also when the two sessions' steps interleave.
C25_CountersPerSession ==
    /\ [](\A s \in SessionIds :
            IF sessions[s].pc = "new"
            THEN sessions[s].stats = NoStats
            ELSE /\ sessions[s].stats # NoStats
                 /\ sessions[s].stats.tool_calls = Cardinality(OwnCalls(s))
                 /\ sessions[s].stats.content_reads =
                       Cardinality(OwnCallsOf(s, "readContent"))
                 /\ sessions[s].stats.figure_analyses =
                       Cardinality(OwnCallsOf(s, "readFigure")))
    /\ [][\A s \in SessionIds :
            /\ (sessions[s].pc = "new" /\ sessions'[s].pc # "new") =>
                   sessions'[s].stats = InitialStats
            /\ (sessions[s].stats # NoStats /\ sessions'[s].stats # NoStats) =>
                   \A c \in CounterNames : sessions'[s].stats[c] >= sessions[s].stats[c]
            /\ Untouched(s) => sessions'[s].stats = sessions[s].stats]_vars

\* both sessions have an invocation in flight, with different counters
C25_Witness ==
    /\ sessions # <<>>
    /\ sessions[1].waiting = "readFigure"
    /\ sessions[2].waiting = "readTable"
    /\ sessions[1].stats.tool_calls = 2
    /\ sessions[1].stats.content_reads = 1
    /\ sessions[2].stats.tool_calls = 1
    /\ sessions[2].stats.figure_analyses = 0

-----------------------------------------------------------------------------
(* processHtmlJsonFile: one session run by the batch caller *)

\* the options the caller passes (types.ts lines 72-76), with the step budget
\* of 30 scaled to the model's budget
CallerOptions ==
    [model |-> "gpt-5", max_iterations |-> MaxIterations, include_metadata |-> TRUE]

\* let answer = ''; the sink assigns data.answer on every answer event
\* (types.ts lines 55-63): the variable holds the text of the last answer event
CapturedAnswer ==
    LET answers == {k \in 1..Len(events) : events[k].event = "answer"}
    IN  IF answers = {}
        THEN ""
        ELSE events[CHOOSE k \in answers : \A j \in answers : j <= k].answer

\* variant of HasAnswer that takes every session for answered
HasAnswerAlways(answer) == TRUE

\* if (answer) (types.ts line 79): the empty string is falsy
HasAnswer(answer) == answer # ""

NoOutcome == [returned |-> FALSE]

FileInit ==
    /\ file = [pc |-> "start", answerWritten |-> FALSE, csvStarted |-> FALSE,
               outcome |-> NoOutcome]
    /\ fullContent \in SessionDocs
    /\ options = CallerOptions
    /\ pc = "idle"
    /\ events = <<>>
    /\ stats = InitialStats
    /\ steps = 0
    /\ genCalls = 0
    /\ selfStopped = FALSE
    /\ resultText = NoText
    /\ failure = NoFailure
    /\ lastTool = NoTool
    /\ pending = <<>>
    /\ IdleHistory
    /\ IdleChunker
    /\ IdleSummarizer
    /\ IdlePair
    /\ IdleBatch
    /\ IdleScripts

FileUnchanged ==
    UNCHANGED <<fullContent, options, events, stats, steps, genCalls, selfStopped,
                resultText, failure, lastTool, pending, historyVars, chunkVars,
                summaryVars, pairVars, allFiles, scriptVars>>

\* types.ts lines 47-51, before the try block: reading or parsing the file
\* throws, or the parsed value lacks fullContent or chunks, and
\* processHtmlJsonFile rejects
FileLoadThrows ==
    /\ file.pc = "start"
    /\ file' = [file EXCEPT !.pc = "rejected"]
    /\ pc' = pc
    /\ FileUnchanged

\* types.ts lines 33-41: the CSV file is already there and the file is skipped
FileSkipped ==
    /\ file.pc = "start"
    /\ file' = [file EXCEPT !.pc = "returned",
                            !.outcome = [success |-> TRUE, skipped |-> TRUE]]
    /\ pc' = pc
    /\ FileUnchanged

\* types.ts lines 43-78: the document is loaded and the session is called
FileRunSession ==
    /\ file.pc = "start"
    /\ file' = [file EXCEPT !.pc = "awaiting"]
    /\ pc' = "starting"
    /\ FileUnchanged

\* types.ts lines 79-84 and 110-119: the session has ended; with an answer the
\* answer file is written, without one the failure is thrown and reported
FileAfterSession(written) ==
    /\ file.pc = "awaiting"
    /\ pc = "resolved"
    /\ IF HasAnswer(CapturedAnswer)
       THEN IF written
            THEN file' = [file EXCEPT !.pc = "written", !.answerWritten = TRUE]
            ELSE file' = [file EXCEPT !.pc = "returned",
                                      !.outcome = [success |-> FALSE,
                                                   error |-> "write failure"]]
       ELSE file' = [file EXCEPT !.pc = "returned",
                                 !.outcome = [success |-> FALSE,
                                              error |-> "No answer was generated"]]
    /\ pc' = pc
    /\ FileUnchanged

\* types.ts lines 86-101: extractToCSV is called on the answer file
FileStartCsv ==
    /\ file.pc = "written"
    /\ file' = [file EXCEPT !.pc = "converting", !.csvStarted = TRUE]
    /\ pc' = pc
    /\ FileUnchanged

\* types.ts lines 103-119: the conversion returns its rows or throws
FileCsvSettles(converted) ==
    /\ file.pc = "converting"
    /\ file' = [file EXCEPT
                   !.pc = "returned",
                   !.outcome = IF converted
                               THEN [success |-> TRUE, rowCount |-> 1]
                               ELSE [success |-> FALSE, error |-> "conversion failure"]]
    /\ pc' = pc
    /\ FileUnchanged

FileNext ==
    \/ FileSkipped
    \/ FileLoadThrows
    \/ FileRunSession
    \/ Next
    \/ \E written \in BOOLEAN : FileAfterSession(written)
    \/ FileStartCsv
    \/ \E converted \in BOOLEAN : FileCsvSettles(converted)

FileSpec == FileInit /\ [][FileNext]_vars

\* the session of the file has ended
SessionEnded == file.pc \notin {"idle", "start", "awaiting"} /\ pc = "resolved"

\* C28: a session that ends without a non-empty answer (an error event, or an
\* answer event with the empty text) makes processHtmlJsonFile return
\* {success: false, error: 'No answer was generated'} with no answer file
\* written and no CSV conversion started; the conversion is started only after
\* a non-empty answer was received and the session has ended.
C28_NoAnswerFailsFile ==
    /\ CountEvents("error") > 0 => CapturedAnswer = ""
    /\ (SessionEnded /\ CapturedAnswer = "") =>
          /\ file.pc = "returned"
          /\ file.outcome = [success |-> FALSE, error |-> "No answer was generated"]
          /\ ~file.answerWritten
          /\ ~file.csvStarted
    /\ file.csvStarted =>
          /\ CapturedAnswer # ""
          /\ pc = "resolved"
          /\ file.answerWritten

\* the session answered with the empty text and the file was reported failed
C28_Witness ==
    /\ file.pc = "returned"
    /\ CountEvents("answer") = 1
    /\ CountEvents("complete") = 1
    /\ CapturedAnswer = ""
    /\ file.outcome = [success |-> FALSE, error |-> "No answer was generated"]

\* the session ended with the error event and the file was reported failed
NoAnswerAfterErrorReached ==
    /\ file.pc = "returned"
    /\ CountEvents("error") = 1
    /\ file.outcome = [success |-> FALSE, error |-> "No answer was generated"]

-----------------------------------------------------------------------------
(* The promise of agenticReaderWithEvents *)

\* an exception was raised inside the session
ExceptionRaised == failure # NoFailure

\* C31: the promise returned by agenticReaderWithEvents never rejects: every
\* exception raised inside the session, in any state, has become an error
\* event by the time the session ends, and the call resolves.
C31_NeverRejects ==
    /\ pc # "rejected"
    /\ (Finished /\ ExceptionRaised) =>
          /\ pc = "resolved"
          /\ CountEvents("error") >= 1
          /\ events[Len(events)].event = "error"

\* with a sink that always returns the promise resolves in every execution
NeverRejectsReliableSink == C31_NeverRejects

-----------------------------------------------------------------------------
(* The session counters *)

\* the invocations of a tool so far: every execute announces itself with one
\* tool_call event before it does anything else
Invocations == {k \in 1..Len(events) : events[k].event = "tool_call"}

InvocationsOf(tool) == {k \in Invocations : events[k].tool = tool}

\* C32: the counters count invocations, failed ones included: tool_calls is
\* the number of tool invocations, content_reads the number of readContent
\* invocations, figure_analyses the number of readFigure invocations; so
\* tool_calls >= content_reads + figure_analyses, and there are never more
\* content_read events than content_reads.
C32_CountersCountInvocations ==
    /\ stats.tool_calls = Cardinality(Invocations)
    /\ stats.content_reads = Cardinality(InvocationsOf("readContent"))
    /\ stats.figure_analyses = Cardinality(InvocationsOf("readFigure"))
    /\ stats.tool_calls >= stats.content_reads + stats.figure_analyses
    /\ CountEvents("content_read") <= stats.content_reads

\* a read that failed and a figure analysis that failed have both been counted
C32_Witness ==
    /\ pc = "resolved"
    /\ stats.content_reads = 1
    /\ CountEvents("content_read") = 0
    /\ stats.figure_analyses >= 1
    /\ CountEvents("figure_analyzed") = 0
    /\ stats.tool_calls = stats.content_reads + stats.figure_analyses

-----------------------------------------------------------------------------
(* htmlToMarkdownChunksWithSummaries followed by a readContent call *)

MaxRecordLen == 4

RecordDocs == {h \in HtmlDocs : Len(h) <= MaxRecordLen}

\* variant of htmlToMarkdown that keeps script elements
HtmlToMarkdownKeepsScript(h) == h

\* htmlToMarkdown (lines 93-104): the same conversion as the chunker's
HtmlToMarkdown(h) == Turndown(h)

RecordInit ==
    /\ html \in RecordDocs
    /\ chunkSize \in 1..MaxChunkSize
    /\ overlap \in 0..chunkSize
    /\ i = 0
    /\ chunks = <<>>
    /\ cpc = "idle"
    /\ inputChunks = <<>>
    /\ maxConcurrency \in 0..2
    /\ queue = <<>>
    /\ results = <<>>
    /\ completed = 0
    /\ workers = <<>>
    /\ calls = <<>>
    /\ spc = "idle"
    /\ fullContent = <<>>
    /\ options = [model |-> "gpt-5"]
    /\ pc = "record_start"
    /\ events = <<>>
    /\ stats = InitialStats
    /\ steps = 0
    /\ genCalls = 0
    /\ selfStopped = FALSE
    /\ resultText = NoText
    /\ failure = NoFailure
    /\ lastTool = NoTool
    /\ pending = <<>>
    /\ IdleHistory
    /\ IdlePair
    /\ IdleCaller
    /\ IdleScripts

\* const fullMarkdown = htmlToMarkdown(html) (line 183); the chunker is called
RecordConvert ==
    /\ pc = "record_start"
    /\ fullContent' = HtmlToMarkdown(html)
    /\ cpc' = "start"
    /\ pc' = "record_chunking"
    /\ UNCHANGED <<html, chunkSize, overlap, i, chunks>>
    /\ UNCHANGED <<options, events, stats, steps, genCalls, selfStopped,
                   resultText, failure, lastTool, pending>>
    /\ UNCHANGED <<historyVars, summaryVars, pairVars, callerVars>>

\* the chunker has returned; generateChunkSummaries is called with its list
\* (lines 186-189)
RecordSummarize ==
    /\ pc = "record_chunking"
    /\ ChunksReturned
    /\ inputChunks' = chunks
    /\ spc' = "start"
    /\ pc' = "record_summarizing"
    /\ UNCHANGED <<maxConcurrency, queue, results, completed, workers, calls>>
    /\ UNCHANGED <<fullContent, options, events, stats, steps, genCalls,
                   selfStopped, resultText, failure, lastTool, pending>>
    /\ UNCHANGED <<historyVars, chunkVars, pairVars, callerVars>>

\* the await of line 189 settles: the record { fullContent, chunks } is
\* returned (lines 191-194), or the rejection is passed on
RecordReturn ==
    /\ pc = "record_summarizing"
    /\ spc \in {"returned", "rejected"}
    /\ pc' = IF spc = "returned" THEN "ready" ELSE "record_rejected"
    /\ UNCHANGED <<fullContent, options, events, stats, steps, genCalls,
                   selfStopped, resultText, failure, lastTool, pending>>
    /\ UNCHANGED <<historyVars, chunkVars, summaryVars, pairVars, callerVars>>

\* readContent is called on the record's fullContent with the span of one of
\* the record's chunks
RecordRead(k) ==
    /\ k \in 1..Len(results)
    /\ Filled(results[k])
    /\ CallReadContent(results[k].startChar, results[k].endChar)

RecordNext ==
    \/ RecordConvert
    \/ ChunkNext
    \/ RecordSummarize
    \/ SummaryNext
    \/ RecordReturn
    \/ \E k \in 1..(MaxRecordLen + 1) : RecordRead(k)

RecordSpec == RecordInit /\ [][RecordNext]_vars

\* the record has been returned
RecordProduced == pc \in {"ready", "returned"}

\* the slots of the record that hold a chunk
RecordChunks == {k \in 1..Len(results) : Filled(results[k])}

\* C33: in the record produced by htmlToMarkdownChunksWithSummaries every
\* chunk's content is fullContent[startChar, endChar) and has length
\* endChar - startChar <= chunkSize, and readContent(startChar, endChar) on
\* that fullContent returns exactly the content of every non-empty chunk.
C33_RecordChunksReadable ==
    /\ RecordProduced =>
          \A k \in RecordChunks :
              /\ 0 <= results[k].startChar
              /\ results[k].startChar <= results[k].endChar
              /\ results[k].endChar <= Len(fullContent)
              /\ results[k].content =
                    SubSeq(fullContent, results[k].startChar + 1, results[k].endChar)
              /\ Len(results[k].content) = results[k].endChar - results[k].startChar
              /\ Len(results[k].content) <= chunkSize
    /\ (pc = "returned" /\ lastTool.tool = "readContent") =>
          \A k \in RecordChunks :
              (/\ lastTool.input = <<results[k].startChar, results[k].endChar>>
               /\ results[k].content # <<>>) =>
                  /\ lastTool.result.success
                  /\ lastTool.result.content = results[k].content

\* the second of several overlapping chunks of a document that held a script
\* element has been read back
C33_Witness ==
    /\ pc = "returned"
    /\ Len(html) > Len(fullContent)
    /\ overlap = 1
    /\ Len(results) >= 2
    /\ Filled(results[2])
    /\ lastTool.input = <<results[2].startChar, results[2].endChar>>
    /\ lastTool.result.success
    /\ Len(lastTool.result.content) = 2

\* with maxConcurrency 0 the record is returned without any chunk in it
RecordWithoutChunksReached ==
    /\ pc = "ready"
    /\ Len(results) >= 1
    /\ RecordChunks = {}

-----------------------------------------------------------------------------
(* Termination of the scan of searchContent *)

\* the limit the caller asked for, the default when none was given
RequestedLimit ==
    IF "maxResults" \in DOMAIN lastTool.input
    THEN lastTool.input.maxResults
    ELSE DefaultMaxResults

\* the number of times the body of the while loop ran
LoopPasses == lastTool.result.iterations

\* C34: searchContent terminates for every document, every search text (the
\* empty one included) and every maxResults (0 and negative included): each
\* pass of the loop appends one result or ends the scan, so the loop runs at
\* most max(maxResults, 0) + 1 times.
C34_SearchTerminates ==
    SearchInvoked =>
        /\ pc = "returned"
        /\ LoopPasses <= Max(RequestedLimit, 0) + 1
        /\ LoopPasses \in {lastTool.result.resultsFound,
                           lastTool.result.resultsFound + 1}
        /\ lastTool.result.resultsFound <= Max(RequestedLimit, 0)

\* the empty text was searched for and the scan stopped at the limit
C34_Witness ==
    /\ SearchInvoked
    /\ SearchedText = <<>>
    /\ RequestedLimit = 2
    /\ LoopPasses = 2

\* a negative limit: the loop body never runs
NegativeLimitReached ==
    /\ SearchInvoked
    /\ RequestedLimit < 0
    /\ Len(fullContent) > 0
    /\ LoopPasses = 0

\* a pass that found nothing ended the scan below the limit
ScanEndedByBreakReached ==
    /\ SearchInvoked
    /\ RequestedLimit = 2
    /\ lastTool.result.resultsFound = 1
    /\ LoopPasses = 2

\* the passes never exceed max(maxResults, 0) itself
PassesWithinLimit == SearchInvoked => LoopPasses <= Max(RequestedLimit, 0)

-----------------------------------------------------------------------------
(* processAllHtmlJsonFiles: the files of a directory, one after another *)

MaxFiles == 2

NewFile ==
    [pc |-> "start", answerWritten |-> FALSE, csvStarted |-> FALSE,
     outcome |-> NoOutcome]

BatchInit ==
    /\ allFiles \in {[pc |-> "loop", files |-> n, results |-> <<>>] : n \in 0..MaxFiles}
    /\ file = [pc |-> "idle"]
    /\ IdleSession
    /\ IdleHistory
    /\ IdleChunker
    /\ IdleSummarizer
    /\ IdlePair
    /\ IdleScripts

\* const result = await processHtmlJsonFile(filePath) (types.ts line 144): the
\* loop goes on when the call has returned a value
NextFile(position) == position = "returned"

\* the for loop takes the next file and calls processHtmlJsonFile on it
\* (types.ts lines 143-144); the call starts with its own locals
BatchCallFile ==
    /\ allFiles.pc = "loop"
    /\ Len(allFiles.results) < allFiles.files
    /\ allFiles' = [allFiles EXCEPT !.pc = "awaiting"]
    /\ file' = NewFile
    /\ fullContent' \in SessionDocs
    /\ options' = CallerOptions
    /\ pc' = "idle"
    /\ events' = <<>>
    /\ stats' = InitialStats
    /\ steps' = 0
    /\ genCalls' = 0
    /\ selfStopped' = FALSE
    /\ resultText' = NoText
    /\ failure' = NoFailure
    /\ lastTool' = NoTool
    /\ pending' = <<>>
    /\ messages' = <<>>
    /\ presented' = NotPrepared
    /\ UNCHANGED <<chunkVars, summaryVars, pairVars, scriptVars>>

\* the call has returned: its value is pushed onto results (types.ts 145-148)
BatchCollect ==
    /\ allFiles.pc = "awaiting"
    /\ NextFile(file.pc)
    /\ allFiles' = [allFiles EXCEPT
                    !.pc = "loop",
                    !.results = Append(@, [file |-> Len(@) + 1,
                                           outcome |-> file.outcome])]
    /\ UNCHANGED <<sessionVars, historyVars, chunkVars, summaryVars, pairVars, file,
                   scriptVars>>

\* the awaited call has rejected: the loop is left and processAllHtmlJsonFiles
\* rejects (types.ts line 144, no try around it)
BatchRejects ==
    /\ allFiles.pc = "awaiting"
    /\ file.pc = "rejected"
    /\ allFiles' = [allFiles EXCEPT !.pc = "rejected"]
    /\ UNCHANGED <<sessionVars, historyVars, chunkVars, summaryVars, pairVars, file,
                   scriptVars>>

\* every file has been taken: the summary is printed (types.ts 151-171)
BatchSummary ==
    /\ allFiles.pc = "loop"
    /\ Len(allFiles.results) = allFiles.files
    /\ allFiles' = [allFiles EXCEPT !.pc = "done"]
    /\ UNCHANGED <<sessionVars, historyVars, chunkVars, summaryVars, pairVars, file,
                   scriptVars>>

BatchNext ==
    \/ BatchCallFile
    \/ FileNext
    \/ BatchCollect
    \/ BatchRejects
    \/ BatchSummary

BatchSpec == BatchInit /\ [][BatchNext]_vars

\* processAllHtmlJsonFiles has ended
BatchEnded == allFiles.pc \in {"done", "rejected"}

\* the file in progress was reported as skipped
ReportedSkipped ==
    /\ file.pc = "returned"
    /\ "skipped" \in DOMAIN file.outcome

\* C35: processAllHtmlJsonFiles takes the files one after another and produces
\* exactly one result per input file: a failure in one file is recorded and
\* never keeps the remaining files from being processed, and a file whose CSV
\* exists is reported as skipped with no session started and no file written.
C35_OneResultPerFile ==
    /\ allFiles.pc # "rejected"
    /\ BatchEnded => Len(allFiles.results) = allFiles.files
    /\ allFiles.pc = "awaiting" => Len(allFiles.results) < allFiles.files
    /\ ReportedSkipped =>
          /\ file.outcome = [success |-> TRUE, skipped |-> TRUE]
          /\ pc = "idle"
          /\ events = <<>>
          /\ ~file.answerWritten
          /\ ~file.csvStarted

\* what holds of the allFiles whatever the files contain: the results are in file
\* order, one per file taken so far, and a skipped file started nothing
ResultsFollowFiles ==
    /\ Len(allFiles.results) <= allFiles.files
    /\ \A k \in 1..Len(allFiles.results) : allFiles.results[k].file = k
    /\ allFiles.pc = "done" => Len(allFiles.results) = allFiles.files
    /\ ReportedSkipped =>
          /\ pc = "idle"
          /\ events = <<>>
          /\ ~file.answerWritten
          /\ ~file.csvStarted

\* a file failed inside the try block, was recorded, and the next file was
\* processed
RecordedFailureReached ==
    /\ allFiles.pc = "done"
    /\ allFiles.files = 2
    /\ allFiles.results[1].outcome = [success |-> FALSE, error |-> "No answer was generated"]
    /\ "skipped" \in DOMAIN allFiles.results[2].outcome

\* the first file could not be loaded and the second was never taken
BatchAbandonedReached ==
    /\ allFiles.pc = "rejected"
    /\ allFiles.files = 2
    /\ allFiles.results = <<>>

-----------------------------------------------------------------------------
(* convertDataset: every PDF of the dataset directory converted to JSON *)

MaxPdfFiles == 3

\* directory entries that pass the filter of line 19
PdfNames == {"a.pdf", "a.PDF", "b.pdf", "b.PDF"}

\* parse(pdfPath).name (line 29): the file name without its extension
NameOf(pdfFile) == IF pdfFile \in {"a.pdf", "a.PDF"} THEN "a" ELSE "b"

\* the lists readdirSync may return: distinct entries, in any order
PdfLists ==
    {l \in UNION {[1..n -> PdfNames] : n \in 0..MaxPdfFiles} :
        \A j \in 1..Len(l), k \in 1..Len(l) : j # k => l[j] # l[k]}

\* variant of JsonExists that never finds the file
JsonExistsNever(jsons, pdfFile) == FALSE

\* existsSync(expectedJsonPath) (lines 30-35)
JsonExists(jsons, pdfFile) == NameOf(pdfFile) \in jsons

\* lines 15-25: the directory is read and the counters start at 0
ConvertInit ==
    /\ conversion \in {[pc |-> "loop", pdfFiles |-> l, position |-> 0,
                        converted |-> 0, skipped |-> 0, failed |-> 0,
                        jsons |-> j, attempts |-> <<>>] :
                           l \in PdfLists, j \in SUBSET {"a", "b"}}
    /\ IdleBenchmark
    /\ IdleParsing
    /\ IdleSession
    /\ IdleHistory
    /\ IdleChunker
    /\ IdleSummarizer
    /\ IdlePair
    /\ IdleCaller

ConvertUnchanged ==
    UNCHANGED <<sessionVars, historyVars, chunkVars, summaryVars, pairVars,
                file, allFiles, benchmark, parsing>>

\* the PDF the loop is at
CurrentPdf == conversion.pdfFiles[conversion.position + 1]

\* lines 35-39: the JSON file exists, the PDF is counted as skipped
ConvertSkip ==
    /\ conversion.pc = "loop"
    /\ conversion.position < Len(conversion.pdfFiles)
    /\ JsonExists(conversion.jsons, CurrentPdf)
    /\ conversion' = [conversion EXCEPT !.skipped = @ + 1, !.position = @ + 1]
    /\ ConvertUnchanged

\* lines 41-43: pdfToJSON is called on the PDF
ConvertCall ==
    /\ conversion.pc = "loop"
    /\ conversion.position < Len(conversion.pdfFiles)
    /\ ~JsonExists(conversion.jsons, CurrentPdf)
    /\ conversion' = [conversion EXCEPT
                         !.pc = "converting",
                         !.attempts = Append(@, [pdf |-> CurrentPdf,
                                                 existed |-> NameOf(CurrentPdf)
                                                               \in conversion.jsons])]
    /\ ConvertUnchanged

\* lines 43-45: pdfToJSON returns; it may have written the JSON file
ConvertResolves(written) ==
    /\ conversion.pc = "converting"
    /\ conversion' = [conversion EXCEPT
                         !.pc = "loop",
                         !.converted = @ + 1,
                         !.position = @ + 1,
                         !.jsons = IF written THEN @ \cup {NameOf(CurrentPdf)} ELSE @]
    /\ ConvertUnchanged

\* lines 46-49: pdfToJSON throws; the failure is counted and the loop goes on
ConvertRejects ==
    /\ conversion.pc = "converting"
    /\ conversion' = [conversion EXCEPT !.pc = "loop", !.failed = @ + 1,
                                        !.position = @ + 1]
    /\ ConvertUnchanged

\* lines 52-56: the loop has ended and the summary is printed
ConvertSummary ==
    /\ conversion.pc = "loop"
    /\ conversion.position = Len(conversion.pdfFiles)
    /\ conversion' = [conversion EXCEPT !.pc = "done"]
    /\ ConvertUnchanged

ConvertNext ==
    \/ ConvertSkip
    \/ ConvertCall
    \/ \E written \in BOOLEAN : ConvertResolves(written)
    \/ ConvertRejects
    \/ ConvertSummary

ConvertSpec == ConvertInit /\ [][ConvertNext]_vars

\* the calls of pdfToJSON made for a PDF
AttemptsOn(pdfFile) ==
    {k \in 1..Len(conversion.attempts) : conversion.attempts[k].pdf = pdfFile}

-----------------------------------------------------------------------------
(* benchmarkFile: extracted rows scored against the ground truth *)

MaxRows == 2

\* a CSV field: the empty string, a text parseFloat cannot read, or a number
EmptyField == [kind |-> "empty", value |-> 0]

TextField == [kind |-> "text", value |-> 0]

NumberField(n) == [kind |-> "number", value |-> n]

\* isNaN(parseFloat(field))
IsNaN(field) == field.kind # "number"

Abs(n) == IF n < 0 THEN 0 - n ELSE n

\* diff <= 0.1 || Math.abs(diff / gt) <= 0.01 on whole numbers (part_000
\* lines 135 and 178-181); a division by 0 gives no quotient within the bound
WithinTolerance(extractedNum, groundTruthNum) ==
    LET diff == Abs(extractedNum - groundTruthNum)
    IN  \/ diff = 0
        \/ groundTruthNum # 0 /\ 100 * diff <= Abs(groundTruthNum)

\* compareNumerical(extracted, groundTruth).match (part_000 lines 119-138);
\* no comparison with NaN is true
CompareNumerical(extracted, groundTruth) ==
    IF groundTruth.kind = "empty"
    THEN TRUE
    ELSE IF IsNaN(extracted) /\ ~IsNaN(groundTruth)
         THEN FALSE
         ELSE IF IsNaN(extracted) \/ IsNaN(groundTruth)
              THEN FALSE
              ELSE WithinTolerance(extracted.value, groundTruth.value)

\* groundTruth.filter(...) (part_000 lines 158-160)
RelevantGroundTruth(groundTruth) ==
    SelectSeq(groundTruth, LAMBDA entry : entry.link /\ entry.absorption # EmptyField)

\* the test of relevantGroundTruth.find (part_000 lines 173-182)
AbsorptionClose(extracted, gt) ==
    IF IsNaN(extracted.absorption) \/ IsNaN(gt.absorption)
    THEN FALSE
    ELSE WithinTolerance(extracted.absorption.value, gt.absorption.value)

\* relevantGroundTruth.find(...): the index of the first entry that passes,
\* 0 when none does
FindEntry(extracted, relevant) ==
    LET hits == {k \in 1..Len(relevant) : AbsorptionClose(extracted, relevant[k])}
    IN  IF hits = {} THEN 0 ELSE CHOOSE k \in hits : \A j \in hits : k <= j

\* allMatch of one extracted row (part_000 lines 184-215)
AllMatch(extracted, relevant) ==
    LET k == FindEntry(extracted, relevant)
    IN  /\ k # 0
        /\ CompareNumerical(extracted.absorption, relevant[k].absorption)
        /\ CompareNumerical(extracted.emission, relevant[k].emission)
        /\ CompareNumerical(extracted.lifetime, relevant[k].lifetime)
        /\ CompareNumerical(extracted.quantum_yield, relevant[k].quantum_yield)

\* a quotient kept as numerator and denominator; 0 when the denominator is 0
\* (part_000 lines 230-231)
Quotient(count, total) ==
    IF total > 0 THEN [num |-> count, den |-> total] ELSE [num |-> 0, den |-> 1]

\* benchmarkFile (part_000 lines 143-245)
BenchmarkFile(extractedData, groundTruth) ==
    LET relevant == RelevantGroundTruth(groundTruth)
        matchedCount == Cardinality({k \in 1..Len(extractedData) :
                                        AllMatch(extractedData[k], relevant)})
    IN  [total_extracted |-> Len(extractedData),
         total_ground_truth |-> Len(relevant),
         matched_entries |-> matchedCount,
         precision |-> Quotient(matchedCount, Len(extractedData)),
         recall |-> Quotient(matchedCount, Len(relevant))]

ExtractedRows ==
    {[absorption |-> a, emission |-> e, lifetime |-> EmptyField,
      quantum_yield |-> NumberField(1)] :
        a \in {NumberField(400), NumberField(404), NumberField(405), TextField},
        e \in {NumberField(500), EmptyField}}

GroundTruthRows ==
    {[link |-> l, absorption |-> a, emission |-> NumberField(500),
      lifetime |-> EmptyField, quantum_yield |-> q] :
        l \in BOOLEAN,
        a \in {NumberField(400), EmptyField},
        q \in {NumberField(1), EmptyField}}

RowLists(rows) == UNION {[1..n -> rows] : n \in 0..MaxRows}

BenchmarkInit ==
    /\ benchmark \in {[pc |-> "start", extractedData |-> x, groundTruth |-> g] :
                         x \in RowLists(ExtractedRows),
                         g \in RowLists(GroundTruthRows)}
    /\ IdleConversion
    /\ IdleParsing
    /\ IdleSession
    /\ IdleHistory
    /\ IdleChunker
    /\ IdleSummarizer
    /\ IdlePair
    /\ IdleCaller

\* benchmarkFile is called and returns its result
BenchmarkReturns ==
    /\ benchmark.pc = "start"
    /\ benchmark' = [pc |-> "done",
                     extractedData |-> benchmark.extractedData,
                     groundTruth |-> benchmark.groundTruth,
                     result |-> BenchmarkFile(benchmark.extractedData,
                                              benchmark.groundTruth)]
    /\ UNCHANGED <<sessionVars, historyVars, chunkVars, summaryVars, pairVars,
                   file, allFiles, conversion, parsing>>

BenchmarkNext == BenchmarkReturns

BenchmarkSpec == BenchmarkInit /\ [][BenchmarkNext]_vars

Benchmarked == benchmark.pc = "done"

\* a quotient between 0 and 1
InUnitInterval(q) == 0 <= q.num /\ q.num <= q.den

\* C37: for every extracted file and ground-truth set benchmarkFile reports
\* matched_entries <= total_extracted and matched_entries <=
\* total_ground_truth, so precision and recall both lie between 0 and 1.
C37_ScoresInUnitInterval ==
    Benchmarked =>
        /\ benchmark.result.matched_entries <= benchmark.result.total_extracted
        /\ benchmark.result.matched_entries <= benchmark.result.total_ground_truth
        /\ InUnitInterval(benchmark.result.precision)
        /\ InUnitInterval(benchmark.result.recall)

\* the half of the property that holds: the matches never outnumber the
\* extracted rows and precision lies between 0 and 1
PrecisionInUnitInterval ==
    Benchmarked =>
        /\ benchmark.result.matched_entries <= benchmark.result.total_extracted
        /\ InUnitInterval(benchmark.result.precision)

\* two extracted rows were matched with the one ground-truth entry: recall 2
RecallAboveOneReached ==
    /\ Benchmarked
    /\ benchmark.result.total_ground_truth = 1
    /\ benchmark.result.matched_entries = 2
    /\ benchmark.result.recall = [num |-> 2, den |-> 1]

-----------------------------------------------------------------------------
(* waitForParsingResult: polling the parsing service for the result *)

\* const requestPeriod = 2000; const maxTimeToWait = 10 * 60 * 1000
RequestPeriod == 2000
MaxTimeToWait == 600000

\* what a status request may return
StatusResponses ==
    {[state |-> s, full_zip_url |-> u] :
        s \in {"pending", "running", "done", "failed"},
        u \in {"", "https://result.zip"}}

\* variant of TimedOut that gives up when the limit is reached
TimedOutAtLimit(waited) == waited >= MaxTimeToWait

\* if (timeWaited > maxTimeToWait) (line 995)
TimedOut(waited) == waited > MaxTimeToWait

ParsingInit ==
    /\ parsing = [pc |-> "request", timeWaited |-> 0, requests |-> 0,
                  outcome |-> [kind |-> "none"]]
    /\ IdleConversion
    /\ IdleBenchmark
    /\ IdleSession
    /\ IdleHistory
    /\ IdleChunker
    /\ IdleSummarizer
    /\ IdlePair
    /\ IdleCaller

ParsingUnchanged ==
    UNCHANGED <<sessionVars, historyVars, chunkVars, summaryVars, pairVars,
                file, allFiles, conversion, benchmark>>

\* lines 969-990: a status request returns and its state is examined
StatusReturns(res) ==
    /\ parsing.pc = "request"
    /\ parsing' =
          [parsing EXCEPT
              !.requests = @ + 1,
              !.pc = IF res.state = "done"
                     THEN IF res.full_zip_url = "" THEN "thrown" ELSE "returned"
                     ELSE IF res.state = "failed" THEN "thrown" ELSE "sleeping",
              !.outcome = IF res.state = "done"
                          THEN IF res.full_zip_url = ""
                               THEN [kind |-> "error", message |-> "no result URL"]
                               ELSE [kind |-> "url", url |-> res.full_zip_url]
                          ELSE IF res.state = "failed"
                               THEN [kind |-> "error", message |-> "Parsing failed"]
                               ELSE @]
    /\ ParsingUnchanged

\* lines 969-972: the status request itself fails and the function rejects
StatusRequestFails ==
    /\ parsing.pc = "request"
    /\ parsing' = [parsing EXCEPT
                      !.requests = @ + 1,
                      !.pc = "thrown",
                      !.outcome = [kind |-> "error", message |-> "request failed"]]
    /\ ParsingUnchanged

\* lines 992-997: the pause ends, the time is added up and checked
PauseEnds ==
    /\ parsing.pc = "sleeping"
    /\ LET waited == parsing.timeWaited + RequestPeriod
       IN  parsing' =
              [parsing EXCEPT
                  !.timeWaited = waited,
                  !.pc = IF TimedOut(waited) THEN "thrown" ELSE "request",
                  !.outcome = IF TimedOut(waited)
                              THEN [kind |-> "error", message |-> "Parsing timeout"]
                              ELSE @]
    /\ ParsingUnchanged

ParsingNext ==
    \/ \E res \in StatusResponses : StatusReturns(res)
    \/ StatusRequestFails
    \/ PauseEnds

ParsingSpec == ParsingInit /\ [][ParsingNext]_vars

\* every request that is made settles and every pause ends
ParsingFairSpec == ParsingSpec /\ WF_vars(ParsingNext)

ParsingEnded == parsing.pc \in {"returned", "thrown"}

ParsingTimedOut ==
    /\ parsing.pc = "thrown"
    /\ parsing.outcome = [kind |-> "error", message |-> "Parsing timeout"]

\* C38: waitForParsingResult always terminates: it returns the result URL on
\* state done with a URL, throws on failed or on done without a URL, and
\* otherwise throws the timeout error once the accumulated wait exceeds 10
\* minutes; it issues at most 301 status requests.
C38_PollingTerminates ==
    /\ <>ParsingEnded
    /\ [](/\ parsing.requests <= 301
          /\ parsing.pc = "returned" =>
                parsing.outcome = [kind |-> "url", url |-> "https://result.zip"]
          /\ parsing.pc = "thrown" =>
                /\ parsing.outcome.kind = "error"
                /\ parsing.outcome.message \in
                      {"no result URL", "Parsing failed", "request failed",
                       "Parsing timeout"}
          /\ ParsingTimedOut =>
                /\ parsing.timeWaited > 600000
                /\ parsing.timeWaited - RequestPeriod <= 600000
                /\ parsing.requests = 301
          /\ ~ParsingEnded => parsing.timeWaited <= 600000)

\* the service never finished: the 301st request was answered with running
\* and the timeout was thrown
C38_Witness ==
    /\ ParsingTimedOut
    /\ parsing.requests = 301
    /\ parsing.timeWaited = 602000

\* the result was returned as late as it can be, by the 301st request
LastRequestAnsweredReached ==
    /\ parsing.pc = "returned"
    /\ parsing.requests = 301

====
